---- MODULE Spec2Model ----
(***************************************************************************)
(* Klatsch chat coordination engine.                                       *)
(*                                                                         *)
(* The model covers the coordinator actor (src/src/chat/shared.rs), the    *)
(* SQLite backed history it owns (src/src/chat/history.rs), the event      *)
(* model (src/src/chat/event.rs), the tokio channels the two sides talk    *)
(* through (mpsc request queue, oneshot responders, broadcast ring) and    *)
(* the client side: add_message callers and events() streams.              *)
(***************************************************************************)
EXTENDS Integers, Sequences, FiniteSets, TLC

(***************************************************************************)
(* Bounds of the model.                                                    *)
(***************************************************************************)
\* Width of the integers standing for u64 / i64. Ids, cursors and
\* timestamps are IntBits wide; SQLite integers are signed and as wide.
IntBits == 4
\* Slots of the broadcast ring (broadcast::channel(10) in the code, scaled
\* down so that a stalled receiver lags after a few events).
RingCapacity == 1

\* Length of the journal of submitted messages, in the workloads that keep
\* one.
MaxSubmits == 3

\* How often the database file is reopened after a shutdown.
MaxOpens == 1
\* Items the stream wrapped by terminate_if yields at most, and values sent
\* on its signal at most.
MaxItems == 2
\* Failed history queries one stream meets at most.
MaxErrors == 1
MaxSends == 2

\* Capacity of the request channel, mpsc::channel(5).
ChannelCapacity == 5

(***************************************************************************)
(* Inputs.                                                                 *)
(***************************************************************************)
\* Client generated message ids (UUIDs).
MessageIds == {"019c-582a", "019c-d995", "019c-d996"}
Senders == {"Alice", "Bob"}
Contents == {"Hello", "Goodbye"}
Messages == [id : MessageIds, sender : Senders, content : Contents]
\* Readings of the wall clock (milliseconds); the clock may step backwards.
Clock == {7, 5}
\* A reading whose highest bit is set: negative when stored as i64.
LateClock == {2 ^ (IntBits - 1) + 4}
\* u64::MAX at the model's width.
MaxU64 == 2 ^ IntBits - 1
\* Arguments of events(last_event_id), as parsed from the Last-Event-ID header.
LastEventIds == {0, 1, MaxU64}
\* The schema version this program writes, and versions a later program
\* writes.
SupportedVersion == 1
FutureVersions == {SupportedVersion + 1, 1000}
\* Faults the storage may raise during one record_message.
Faults == {"none", "insert", "lookup"}

\* Callers of add_message and consumers of events().
Submitters == {"a", "b", "c", "d"}
Subscribers == {"s", "t"}

Message(id, sender, content) == [id |-> id, sender |-> sender, content |-> content]

\* Workloads: the messages each caller submits (as often and in whatever
\* order it likes) and the readings the clock may give.
\*   retry:   one caller resubmits one id unchanged, with another content
\*            and with another sender, while the clock moves;
\*   callers: two callers submit concurrently, one id is used by both;
\*   burst:   one caller submits three messages one after the other,
\*            enough to overrun the broadcast ring of a stalled stream;
\*   watchers: two streams follow what one caller submits;
\*   roundtrip: one caller submits up to MaxSubmits messages one after the
\*            other, and a journal of them is kept.
\*   restart: a caller and a stream go away, the runtime is shut down and
\*            the database file is opened again.
\*   first_run: the program is started on a path that holds no database.
\*   lingering: shutdown() is called while a caller and a stream are alive.
\*   crowd:   four callers and two streams that start from the beginning,
\*            more requests than the request channel holds.
\* `streams` are the events() streams that are opened, `leaving` the
\* clients that may be dropped; with `http` the callers are requests to the
\* HTTP API, otherwise they call the ChatClient as the tests of shared.rs do;
\* with `read_faults` the history query of a ReadEvents may fail; with
\* `fresh` the program has not run yet and there is no database file; with
\* `early` shutdown() may be called while clients are alive, as the earlier
\* runtime and a build without debug assertions allow.
Workloads ==
    { [name |-> "retry",
       messages |-> [c \in Submitters |->
           IF c = "a" THEN {m \in Messages : m.id = "019c-582a"} ELSE {}],
       clock |-> Clock, streams |-> {"s"}, journal |-> FALSE, leaving |-> {},
       http |-> FALSE, read_faults |-> FALSE, fresh |-> FALSE, early |-> FALSE],
      [name |-> "callers",
       messages |-> [c \in Submitters |->
           IF c = "a" THEN {Message("019c-582a", "Alice", "Hello")}
           ELSE IF c = "b" THEN {Message("019c-582a", "Bob", "Hello"),
                                 Message("019c-d995", "Bob", "Hello")}
           ELSE {}],
       clock |-> Clock, streams |-> {"s"}, journal |-> FALSE, leaving |-> {},
       http |-> TRUE, read_faults |-> FALSE, fresh |-> FALSE, early |-> FALSE],
      [name |-> "burst",
       messages |-> [c \in Submitters |->
           IF c = "b" THEN {Message("019c-582a", "Bob", "Hello"),
                            Message("019c-d995", "Bob", "Hello"),
                            Message("019c-d996", "Bob", "Hello")}
           ELSE {}],
       clock |-> {7}, streams |-> {"s"}, journal |-> FALSE, leaving |-> {},
       http |-> FALSE, read_faults |-> FALSE, fresh |-> FALSE, early |-> FALSE],
      [name |-> "watchers",
       messages |-> [c \in Submitters |->
           IF c = "a" THEN {Message("019c-582a", "Alice", "Hello"),
                            Message("019c-d995", "Alice", "Goodbye")}
           ELSE {}],
       clock |-> LateClock, streams |-> {"s", "t"}, journal |-> FALSE, leaving |-> {"t"},
       http |-> FALSE, read_faults |-> FALSE, fresh |-> FALSE, early |-> FALSE],
      [name |-> "roundtrip",
       messages |-> [c \in Submitters |->
           IF c = "a" THEN {Message("019c-582a", "Alice", "Hello"),
                            Message("019c-d995", "Bob", "Goodbye")}
           ELSE {}],
       clock |-> {7}, streams |-> {"s"}, journal |-> TRUE, leaving |-> {},
       http |-> FALSE, read_faults |-> FALSE, fresh |-> FALSE, early |-> FALSE],
      [name |-> "restart",
       messages |-> [c \in Submitters |->
           IF c = "a" THEN {Message("019c-582a", "Alice", "Hello"),
                            Message("019c-d995", "Bob", "Goodbye")}
           ELSE {}],
       clock |-> {7}, streams |-> {"s"}, journal |-> FALSE,
       leaving |-> {"a", "s"}, http |-> FALSE,
       read_faults |-> TRUE, fresh |-> FALSE, early |-> FALSE],
      [name |-> "first_run",
       messages |-> [c \in Submitters |->
           IF c = "a" THEN {Message("019c-582a", "Alice", "Hello")} ELSE {}],
       clock |-> {7}, streams |-> {}, journal |-> FALSE, leaving |-> {"a"},
       http |-> FALSE, read_faults |-> FALSE, fresh |-> TRUE, early |-> FALSE],
      [name |-> "crowd",
       messages |-> [c \in Submitters |-> {Message("019c-582a", "Alice", "Hello")}],
       clock |-> {7}, streams |-> {"s", "t"}, journal |-> FALSE, leaving |-> {},
       http |-> FALSE, read_faults |-> FALSE, fresh |-> FALSE, early |-> FALSE],
      [name |-> "lingering",
       messages |-> [c \in Submitters |->
           IF c = "a" THEN {Message("019c-582a", "Alice", "Hello")} ELSE {}],
       clock |-> {7}, streams |-> {"s"}, journal |-> FALSE,
       leaving |-> {"a", "s"}, http |-> FALSE, read_faults |-> FALSE,
       fresh |-> FALSE, early |-> TRUE] }

VARIABLES
    workload,               \* who submits what, and what the clock reads
    events_table,           \* rows of the SQLite table `events`
    history_last_event_id,  \* SqLiteChatHistory.last_event_id
    receiver,               \* the mpsc request channel, oldest request first
    current,                \* the broadcast channel Actor.current
    response,               \* per caller: what its oneshot responder carries
    client_pc,              \* per submitter: "absent", "idle", "awaiting" or "dropped"
    stream_pc,              \* per events() stream: "unopened", "send", "await", "history", "current", "ended", "dropped"
    stream_last_event_id,   \* per stream: the local `last_event_id`
    stream_events,          \* per stream: the Events value it is iterating
    first_last_event_id,    \* per stream: the argument events() was called with
    emitted,                \* per stream: the events it has yielded so far
    lags,                   \* per stream: how often recv() has reported Lagged
    submitted,              \* the messages answered Ok so far, in order (journal)
    runtime,                \* "running", "stopping", "exited" or "closed"
    user_version,           \* PRAGMA user_version of the database file
    schema,                 \* the tables of the database file
    opens,                  \* how often the database file has been reopened
    open_result,            \* what the last SqLiteChatHistory::new returned
    http_status,            \* per submitter: the status of its last add_message response
    filter,                 \* a terminate_if stream with its signal and the stream it wraps
    stream_errors,          \* per stream: the error items it has yielded
    unsent,                 \* the reply the actor's responder.send last failed to deliver
    sse                     \* per stream: the SSE event last written, and the client's Last-Event-ID

vars == << workload, events_table, history_last_event_id, receiver, current, response,
           client_pc, stream_pc, stream_last_event_id, stream_events,
           first_last_event_id, emitted, lags, submitted,
           runtime, user_version, schema, opens, open_result, http_status, filter,
           stream_errors, sse, unsent >>

lifecycle == << runtime, user_version, schema, opens, open_result >>
edge == << http_status, filter, stream_errors, sse, unsent >>
chat == << workload, events_table, history_last_event_id, receiver, current, response,
           client_pc, stream_pc, stream_last_event_id, stream_events,
           first_last_event_id, emitted, lags, submitted, lifecycle, http_status,
           stream_errors, sse, unsent >>

(***************************************************************************)
(* Event model: src/src/chat/event.rs                                      *)
(***************************************************************************)
before_all == 0

successor(id) == id + 1

\* Event::new: the id, the message and the clock reading truncated to u64.
Event_new(id, message, now) ==
    [id |-> id, message |-> message, timestamp_ms |-> now % 2 ^ IntBits]

(***************************************************************************)
(* Conversions between Rust's u64 and SQLite's signed integers.            *)
(***************************************************************************)
\* `x as i64`
AsI64(u) == IF u >= 2 ^ (IntBits - 1) THEN u - 2 ^ IntBits ELSE u
\* `x as u64`
AsU64(i) == IF i < 0 THEN i + 2 ^ IntBits ELSE i

\* impl ToSql for EventId / impl FromSql for EventId
EventId_to_sql(id) == AsI64(id)
EventId_column_result(value) == AsU64(value)

(***************************************************************************)
(* Persistent history: src/src/chat/history.rs                             *)
(***************************************************************************)
\* A row bound with sender and content in each other's place.
RowWithFieldsSwapped(event) ==
    [id |-> AsI64(event.id),
     message_id |-> event.message.id,
     sender |-> event.message.content,
     content |-> event.message.sender,
     timestamp_ms |-> AsI64(event.timestamp_ms)]

\* The row insert_event binds for an event.
RowOf(event) ==
    [id |-> EventId_to_sql(event.id),
     message_id |-> event.message.id,
     sender |-> event.message.sender,
     content |-> event.message.content,
     timestamp_ms |-> AsI64(event.timestamp_ms)]

\* The event built from a row with the timestamp left as SQLite holds it.
EventWithSignedTimestamp(row) ==
    [id |-> EventId_column_result(row.id),
     message |-> [id |-> row.message_id, sender |-> row.sender,
                  content |-> row.content],
     timestamp_ms |-> row.timestamp_ms]

\* The event fetch_events_since builds from a row.
EventOf(row) ==
    [id |-> EventId_column_result(row.id),
     message |-> [id |-> row.message_id, sender |-> row.sender,
                  content |-> row.content],
     timestamp_ms |-> AsU64(row.timestamp_ms)]

\* ORDER BY id
RECURSIVE OrderById(_)
OrderById(rows) ==
    IF rows = {} THEN << >>
    ELSE LET first == CHOOSE r \in rows : \A q \in rows : r.id <= q.id
         IN  << first >> \o OrderById(rows \ {first})

\* SELECT ... FROM events WHERE id > ?1 ORDER BY id
fetch_events_since(table, last_event_id) ==
    LET bound == EventId_to_sql(last_event_id)
        rows  == OrderById({r \in table : r.id > bound})
    IN  [i \in 1 .. Len(rows) |-> EventOf(rows[i])]

\* Chat::events_since for SqLiteChatHistory
events_since(table, last_event_id) == fetch_events_since(table, last_event_id)

\* Faults the storage may raise during one events_since.
ReadFaults == {"none", "read"}

\* A query whose failure is taken for an empty result.
FailureAsEmpty(table, last_event_id, fault) ==
    IF fault = "read" THEN [kind |-> "Ok", events |-> << >>]
    ELSE [kind |-> "Ok", events |-> fetch_events_since(table, last_event_id)]

\* Chat::events_since for SqLiteChatHistory, with its result: the events,
\* or the error of the query.
events_since_result(table, last_event_id, fault) ==
    IF fault = "read" THEN [kind |-> "Err"]
    ELSE [kind |-> "Ok", events |-> events_since(table, last_event_id)]

\* An insert into a table whose message_id column is not UNIQUE.
InsertWithoutUnique(table, event, fault) ==
    LET row     == [id |-> AsI64(event.id),
                    message_id |-> event.message.id,
                    sender |-> event.message.sender,
                    content |-> event.message.content,
                    timestamp_ms |-> AsI64(event.timestamp_ms)]
        same_pk == {r \in table : r.id = row.id}
    IN  IF fault = "insert" \/ same_pk # {}
            THEN [outcome |-> "Err", table |-> table]
            ELSE [outcome |-> "New", table |-> table \cup {row}]

\* An insert that reports a failed INSERT as a new row.
InsertReportsNewOnFailure(table, event, fault) ==
    LET row      == [id |-> AsI64(event.id),
                     message_id |-> event.message.id,
                     sender |-> event.message.sender,
                     content |-> event.message.content,
                     timestamp_ms |-> AsI64(event.timestamp_ms)]
        same_pk  == {r \in table : r.id = row.id}
        same_mid == {r \in table : r.message_id = row.message_id}
    IN  IF fault = "insert" /\ same_mid = {}
            THEN [outcome |-> "New", table |-> table]
        ELSE IF fault = "insert" \/ same_pk # {}
            THEN [outcome |-> "Err", table |-> table]
        ELSE IF same_mid = {}
            THEN [outcome |-> "New", table |-> table \cup {row}]
        ELSE IF fault = "lookup"
            THEN [outcome |-> "Err", table |-> table]
        ELSE LET found == CHOOSE r \in same_mid : TRUE
             IN  IF found.sender = row.sender /\ found.content = row.content
                     THEN [outcome |-> "Duplicate", table |-> table]
                     ELSE [outcome |-> "Conflict", table |-> table]

\* An insert whose lookup compares the sender only.
InsertComparingSender(table, event, fault) ==
    LET row      == [id |-> AsI64(event.id),
                     message_id |-> event.message.id,
                     sender |-> event.message.sender,
                     content |-> event.message.content,
                     timestamp_ms |-> AsI64(event.timestamp_ms)]
        same_pk  == {r \in table : r.id = row.id}
        same_mid == {r \in table : r.message_id = row.message_id}
    IN  IF fault = "insert" \/ same_pk # {}
            THEN [outcome |-> "Err", table |-> table]
        ELSE IF same_mid = {}
            THEN [outcome |-> "New", table |-> table \cup {row}]
        ELSE IF fault = "lookup"
            THEN [outcome |-> "Err", table |-> table]
        ELSE LET found == CHOOSE r \in same_mid : TRUE
             IN  IF found.sender = row.sender
                     THEN [outcome |-> "Duplicate", table |-> table]
                     ELSE [outcome |-> "Conflict", table |-> table]

\* insert_event: the INSERT, and after a UNIQUE violation on message_id the
\* lookup that tells a duplicate from a conflict. A violation of the
\* PRIMARY KEY or any other storage error is returned as an error.
insert_event(table, event, fault) ==
    LET row      == RowOf(event)
        same_pk  == {r \in table : r.id = row.id}
        same_mid == {r \in table : r.message_id = row.message_id}
    IN  IF fault = "insert" \/ same_pk # {}
            THEN [outcome |-> "Err", table |-> table]
        ELSE IF same_mid = {}
            THEN [outcome |-> "New", table |-> table \cup {row}]
        ELSE IF fault = "lookup"
            THEN [outcome |-> "Err", table |-> table]
        ELSE LET found == CHOOSE r \in same_mid : TRUE
             IN  IF found.sender = row.sender /\ found.content = row.content
                     THEN [outcome |-> "Duplicate", table |-> table]
                     ELSE [outcome |-> "Conflict", table |-> table]

\* Every attempt takes an id, whatever its result.
EveryAttemptTakesId(outcome, last_event_id, event_id) == event_id

\* record_message, the match on the insert's result: self.last_event_id
\* afterwards.
NextLastEventId(outcome, last_event_id, event_id) ==
    IF outcome = "New" THEN event_id ELSE last_event_id

\* A duplicate is returned as an event to announce.
DuplicateIsAnnounced(outcome, event) ==
    CASE outcome = "New" -> [kind |-> "Some", event |-> event]
      [] outcome = "Duplicate" -> [kind |-> "Some", event |-> event]
      [] outcome = "Conflict" -> [kind |-> "Conflict"]
      [] OTHER -> [kind |-> "Internal"]

\* A storage error is returned as a conflict.
FailureIsConflict(outcome, event) ==
    CASE outcome = "New" -> [kind |-> "Some", event |-> event]
      [] outcome = "Duplicate" -> [kind |-> "None"]
      [] OTHER -> [kind |-> "Conflict"]

\* record_message, the match on the insert's result: the value returned.
RecordResult(outcome, event) ==
    CASE outcome = "New" -> [kind |-> "Some", event |-> event]
      [] outcome = "Duplicate" -> [kind |-> "None"]
      [] outcome = "Conflict" -> [kind |-> "Conflict"]
      [] OTHER -> [kind |-> "Internal"]

\* Chat::record_message for SqLiteChatHistory. The result carries what the
\* method returns and the state it leaves behind.
record_message(table, last_event_id, message, now, fault) ==
    LET event_id == successor(last_event_id)
        event    == Event_new(event_id, message, now)
        result   == insert_event(table, event, fault)
    IN  [returns |-> RecordResult(result.outcome, event),
         table |-> result.table,
         last_event_id |->
             NextLastEventId(result.outcome, last_event_id, event_id)]

\* migrate: the outcome and the user_version it leaves in the file.
\* A migration that takes the schema of a later version for its own.
MigrateAcceptsNewer(version) ==
    IF version = 0 THEN [outcome |-> "Created", version |-> SupportedVersion]
    ELSE [outcome |-> "NoMigration", version |-> version]

\* An open that leaves the path out: the database is a new one in memory.
OpenedInMemory(file_version, file_table) == [version |-> 0, table |-> {}]

\* ClientBuilder::path(path).open(): the connection is one to the database
\* file at the path, with the user_version and the events table it holds.
OpenedFile(file_version, file_table) ==
    [version |-> file_version, table |-> file_table]

migrate(version) ==
    IF version = 0
        THEN [outcome |-> "Created", version |-> SupportedVersion]
    ELSE IF version = SupportedVersion
        THEN [outcome |-> "NoMigration", version |-> version]
    ELSE [outcome |-> "Future", version |-> version]

\* Where the statements of a migration may fail.
MigrateFaults == {"none", "create_schema", "pragma_update", "commit"}

\* A migration whose statements take effect one by one: what ran before the
\* failing statement stays in the file.
MigrateOutsideTransaction(version, tables, outcome, fault) ==
    IF outcome.outcome # "Created"
        THEN [version |-> version, schema |-> tables, result |-> "Ok"]
    ELSE IF fault = "none"
        THEN [version |-> outcome.version, schema |-> tables \cup {"events"},
              result |-> "Ok"]
    ELSE [version |-> version,
          schema |-> IF fault = "create_schema" THEN tables
                     ELSE tables \cup {"events"},
          result |-> "Err"]

\* migrate, what it leaves in the file: version 0 runs create_schema and
\* the update of user_version in one transaction, which is rolled back when
\* a statement or the commit fails; the other versions touch nothing.
migrate_transaction(version, tables, outcome, fault) ==
    IF outcome.outcome = "Created" /\ fault = "none"
        THEN [version |-> outcome.version, schema |-> tables \cup {"events"},
              result |-> "Ok"]
    ELSE IF outcome.outcome = "Created"
        THEN [version |-> version, schema |-> tables, result |-> "Err"]
    ELSE [version |-> version, schema |-> tables, result |-> "Ok"]

\* The faults a migration with this outcome can meet: only the creation of
\* the schema writes to the file.
MigrateFaultsFor(outcome) ==
    IF outcome.outcome = "Created" THEN MigrateFaults ELSE {"none"}

NewerVersionError ==
    "Chat History has been created by a newer version. To load it you need to upgrade to a newer version."

\* MigrationOutcome::report_migration_status
report_migration_status(outcome) ==
    IF outcome = "Future" THEN NewerVersionError ELSE "Ok"

MigrateError == "Failed to migrate database"

\* SqLiteChatHistory::new up to the `?` after report_migration_status.
open_status(committed, outcome) ==
    IF committed.result = "Err" THEN MigrateError
    ELSE report_migration_status(outcome.outcome)

\* A history that starts counting from before_all() whatever is stored.
CountsFromBeforeAll(table) == before_all

\* SqLiteChatHistory::new: SELECT MAX(id) FROM events, or before_all() for
\* an empty table.
LastEventIdOnOpen(table) ==
    IF table = {} THEN before_all
    ELSE LET max == CHOOSE r \in table : \A q \in table : q.id <= r.id
         IN  EventId_column_result(max.id)

(***************************************************************************)
(* Broadcast ring: tokio::sync::broadcast as used by the actor             *)
(***************************************************************************)
\* Receivers alive: those travelling in a response and those a stream holds.
rx_cnt(resp, held) ==
    Cardinality({s \in Subscribers :
                    resp[s].kind = "Current" \/ held[s].kind = "Current"})

\* Sender::send: with no receiver the value is handed back and nothing is
\* stored; otherwise it takes the next slot, overwriting the oldest value.
broadcast_send(ch, event, receivers) ==
    IF receivers = 0 THEN ch
    ELSE LET all == Append(ch.buffer, event)
         IN  [buffer |-> IF Len(all) > RingCapacity THEN Tail(all) ELSE all,
              pos |-> ch.pos + 1]

\* A receiver that starts at the oldest value the ring retains.
SubscribeAtOldest(ch, max_id) ==
    [kind |-> "Current", next |-> ch.pos - Len(ch.buffer), start |-> ch.pos,
     since |-> max_id]

\* Sender::subscribe: the receiver starts at the tail. `start` and `since`
\* remember the tail and the highest stored id at that moment.
broadcast_subscribe(ch, max_id) ==
    [kind |-> "Current", next |-> ch.pos, start |-> ch.pos, since |-> max_id]

\* Receiver::recv distinguishes a lagging receiver, a value ready and an
\* empty channel.
Lagged(ch, rx) == ch.pos - rx.next > RingCapacity
Ready(ch, rx) == rx.next < ch.pos /\ ~Lagged(ch, rx)
ValueAt(ch, position) == ch.buffer[Len(ch.buffer) - (ch.pos - position) + 1]

(***************************************************************************)
(* State the definitions below talk about                                  *)
(***************************************************************************)
StoredEvents == {EventOf(r) : r \in events_table}
StoredIds == {e.id : e \in StoredEvents}
MaxStoredId == IF StoredIds = {} THEN 0
               ELSE CHOOSE i \in StoredIds : \A j \in StoredIds : j <= i
NoResponse == [kind |-> "Empty"]
NoEvents == [kind |-> "Empty"]

\* The clients of a new runtime: a caller for everyone who has messages to
\* submit, and the streams of the workload with the arguments they pass.
NewClients ==
    [c \in Submitters |-> IF workload.messages[c] = {} THEN "absent" ELSE "idle"]
NewStreams ==
    [s \in Subscribers |-> IF s \in workload.streams THEN "send" ELSE "unopened"]
FirstLastEventIds ==
    {f \in [Subscribers -> LastEventIds] :
        /\ \A s \in Subscribers \ workload.streams : f[s] = 0
        /\ workload.name = "crowd" => \A s \in Subscribers : f[s] = 0}
NewChannel == [buffer |-> << >>, pos |-> 0]

(***************************************************************************)
(* Server-sent events: src/src/server/http_api.rs, src/src/last_event_id.rs *)
(***************************************************************************)
\* Display for EventId: the u64 in decimal, most significant digit first.
RECURSIVE EventId_to_string(_)
EventId_to_string(id) ==
    IF id < 10 THEN << id >> ELSE EventId_to_string(id \div 10) \o << id % 10 >>

\* The number a string of decimal digits denotes.
RECURSIVE DecimalValue(_)
DecimalValue(digits) ==
    IF digits = << >> THEN 0
    ELSE 10 * DecimalValue(SubSeq(digits, 1, Len(digits) - 1)) + digits[Len(digits)]

\* LastEventId::from_request_parts: the header parsed as u64; a missing
\* header, or one that is no u64, gives 0.
LastEventId_from_header(header) ==
    IF header = << >> \/ DecimalValue(header) >= 2 ^ IntBits
        THEN 0
        ELSE DecimalValue(header)

\* An SSE event for a chat event that carries no id field.
SseEventWithoutId(event) ==
    [data |-> [id |-> event.message.id, sender |-> event.message.sender,
               content |-> event.message.content,
               timestamp_ms |-> event.timestamp_ms]]

\* impl From<Event> for SseEvent: the id field is the event id, the data is
\* the HttpMessage; no event field is set.
SseEvent_from(event) ==
    [id |-> EventId_to_string(event.id),
     data |-> [id |-> event.message.id, sender |-> event.message.sender,
               content |-> event.message.content,
               timestamp_ms |-> event.timestamp_ms]]

\* The closure of the handler events: an item of the chat's stream becomes
\* an SSE event.
SseEvent_of(chat_event) ==
    IF chat_event.kind = "Ok"
        THEN SseEvent_from(chat_event.event)
        ELSE [event |-> "error", data |-> "Internal server error"]

\* Nothing written to the connection yet.
NoSseEvent == [comment |-> "none"]

\* An EventSource client receives an SSE event: an id field replaces the
\* Last-Event-ID it would send on reconnecting, any other event leaves it.
EventSource_receive(connection, sse_event) ==
    [last |-> sse_event,
     last_event_id |-> IF "id" \in DOMAIN sse_event
                           THEN sse_event.id
                           ELSE connection.last_event_id]

\* The connections of the streams as they are opened: the client sent the
\* Last-Event-ID the stream starts from.
NewConnections(first) ==
    [s \in Subscribers |->
        [last |-> NoSseEvent, last_event_id |-> EventId_to_string(first[s])]]

(***************************************************************************)
(* Termination filter: src/src/server/terminate_if.rs                      *)
(***************************************************************************)
\* Items of the wrapped stream.
Items == {"e1", "e2"}
\* The wrapped streams: the items they yield, and whether they end after
\* them or stay pending for ever.
OrgStreams ==
    {[items |-> i, ends |-> e] :
        i \in UNION {[1 .. n -> Items] : n \in 0 .. MaxItems}, e \in BOOLEAN}

\* tokio watch::channel(init): the value, its version, and whether the
\* sender is gone.
watch_channel(init) == [value |-> init, version |-> 0, closed |-> FALSE]
\* watch::Sender::send
watch_send(channel, value) ==
    [channel EXCEPT !.value = value, !.version = @ + 1]
\* watch::Receiver::changed for a receiver that has seen the version
\* `seen`: Ok when there is a version it has not seen, Err when there is
\* none and the sender is gone, pending otherwise.
watch_changed(channel, seen) ==
    IF channel.version # seen THEN "Ok"
    ELSE IF channel.closed THEN "Err"
    ELSE "Pending"

\* org.next() is ready: with an item, or with the end of the stream.
OrgReady(org) == org.items # << >> \/ org.ends

\* A select that looks at the wrapped stream first.
SelectOrgFirst(changed, org) ==
    IF OrgReady(org) THEN "org"
    ELSE IF changed # "Pending" THEN "signal"
    ELSE "pending"

\* select! { biased; signal.changed(), org.next() }: the branch taken.
select_biased(changed, org) ==
    IF changed # "Pending" THEN "signal"
    ELSE IF OrgReady(org) THEN "org"
    ELSE "pending"

\* A signal branch that ends the stream on every change of the signal.
EndsOnAnyChange(result, value) ==
    IF result = "Ok" THEN "ended" ELSE "draining"

\* The signal branch of terminate_on_shutdown: expect() on the result.
ExpectSenderAlive(result, value) ==
    IF result = "Err" THEN "failed"
    ELSE IF value THEN "ended" ELSE "polling"

\* The signal branch of terminate_if: where the loop goes on.
on_changed(result, value) ==
    IF result = "Ok" THEN (IF value THEN "ended" ELSE "polling")
    ELSE "draining"

\* terminate_if(org, signal) before its first poll. `wrapped` keeps the
\* items the wrapped stream had, `told` records that true has been sent,
\* `drained` counts the items forwarded after the sender was found dropped.
terminate_if(org, signal) ==
    [org |-> org, wrapped |-> org.items, signal |-> signal, seen |-> signal.version,
     out |-> << >>, pc |-> "polling", told |-> FALSE, drained |-> 0]

InitChat ==
    /\ workload \in Workloads
    /\ events_table = {}
    /\ history_last_event_id = before_all
    /\ receiver = << >>
    /\ current = NewChannel
    /\ response = [c \in Submitters \cup Subscribers |-> NoResponse]
    /\ client_pc = IF workload.fresh THEN [c \in Submitters |-> "absent"] ELSE NewClients
    /\ stream_pc = NewStreams
    /\ first_last_event_id \in FirstLastEventIds
    /\ stream_last_event_id = first_last_event_id
    /\ stream_events = [s \in Subscribers |-> NoEvents]
    /\ emitted = [s \in Subscribers |-> << >>]
    /\ lags = [s \in Subscribers |-> 0]
    /\ submitted = << >>
    /\ runtime = IF workload.fresh THEN "closed" ELSE "running"
    /\ user_version = IF workload.fresh THEN 0 ELSE migrate(0).version
    /\ schema = IF workload.fresh THEN {}
                ELSE migrate_transaction(0, {}, migrate(0), "none").schema
    /\ opens = 0
    /\ open_result = IF workload.fresh THEN "none"
                     ELSE report_migration_status(migrate(0).outcome)
    /\ http_status = [c \in Submitters |-> "none"]
    /\ stream_errors = [s \in Subscribers |-> 0]
    /\ sse = NewConnections(first_last_event_id)
    /\ unsent = NoResponse

Init ==
    /\ InitChat
    /\ filter = terminate_if([items |-> << >>, ends |-> TRUE], watch_channel(FALSE))

(***************************************************************************)
(* Client side: src/src/chat/shared.rs, ChatClient                         *)
(***************************************************************************)
\* A send into a channel without a capacity.
SendsIntoUnboundedChannel(c) ==
    /\ client_pc[c] = "idle"
    /\ workload.journal => Len(submitted) < MaxSubmits
    /\ \E message \in workload.messages[c] :
          receiver' = Append(receiver,
              [type |-> "AddMessage", message |-> message, responder |-> c])
    /\ client_pc' = [client_pc EXCEPT ![c] = "awaiting"]
    /\ UNCHANGED << lags, workload, edge, lifecycle, submitted, events_table, history_last_event_id, current, response,
                    stream_pc, stream_last_event_id, stream_events,
                    first_last_event_id, emitted >>

\* add_message up to the send: the request enters the channel unless the
\* channel is full, then the caller awaits its responder.
AddMessageSend(c) ==
    /\ client_pc[c] = "idle"
    /\ Len(receiver) < ChannelCapacity
    /\ workload.journal => Len(submitted) < MaxSubmits
    /\ \E message \in workload.messages[c] :
          receiver' = Append(receiver,
              [type |-> "AddMessage", message |-> message, responder |-> c])
    /\ client_pc' = [client_pc EXCEPT ![c] = "awaiting"]
    /\ UNCHANGED << lags, workload, edge, lifecycle, submitted, events_table, history_last_event_id, current, response,
                    stream_pc, stream_last_event_id, stream_events,
                    first_last_event_id, emitted >>

\* A conversion that reports every error as an internal one.
EveryErrorIsInternal(err) ==
    [status_code |-> "500 Internal Server Error", message |-> "Internal server error"]

\* impl From<ChatError> for HttpError
HttpError_from(err) ==
    IF err = "Conflict"
        THEN [status_code |-> "409 Conflict",
              message |-> "A different message with this ID already exists"]
        ELSE [status_code |-> "500 Internal Server Error",
              message |-> "Internal server error"]

\* The handler add_message of the HTTP API: `?` converts the error, Ok(())
\* is answered with 200.
add_message_status(result) ==
    IF result.kind = "Ok" THEN "200 OK" ELSE HttpError_from(result.error).status_code

\* add_message from the response on: the caller returns what it received,
\* and the HTTP handler answers the request.
AddMessageReturn(c) ==
    /\ client_pc[c] = "awaiting"
    /\ response[c] # NoResponse
    /\ response' = [response EXCEPT ![c] = NoResponse]
    /\ client_pc' = [client_pc EXCEPT ![c] = "idle"]
    /\ http_status' =
          IF workload.http
              THEN [http_status EXCEPT ![c] = add_message_status(response[c])]
              ELSE http_status
    /\ UNCHANGED << lags, workload, filter, stream_errors, sse, unsent, lifecycle, submitted, events_table, history_last_event_id, receiver, current,
                    stream_pc, stream_last_event_id, stream_events,
                    first_last_event_id, emitted >>

\* events(): top of the loop, the stream asks for what follows last_event_id.
EventsSend(s) ==
    /\ stream_pc[s] = "send"
    /\ Len(receiver) < ChannelCapacity
    /\ receiver' = Append(receiver,
          [type |-> "ReadEvents", responder |-> s,
           last_event_id |-> stream_last_event_id[s]])
    /\ stream_pc' = [stream_pc EXCEPT ![s] = "await"]
    /\ UNCHANGED << lags, workload, edge, lifecycle, submitted, events_table, history_last_event_id, current, response,
                    client_pc, stream_last_event_id, stream_events,
                    first_last_event_id, emitted >>

\* The cursor is left where it was.
StaleCursor(last_event_id, event) == last_event_id

\* The cursor after an event has been taken from the inner stream.
AdvanceCursor(last_event_id, event) == event.id

\* What a stream keeps of a history batch after yielding its first event.
\* After the last event the inner stream ends and the loop starts over.
YieldFrom(s, history) ==
    LET event == Head(history)
        rest  == Tail(history)
    IN  /\ stream_last_event_id' = [stream_last_event_id EXCEPT ![s] =
               AdvanceCursor(stream_last_event_id[s], event)]
        /\ emitted' = [emitted EXCEPT ![s] = Append(@, event)]
        /\ sse' = [sse EXCEPT ![s] =
               EventSource_receive(@, SseEvent_of([kind |-> "Ok", event |-> event]))]
        /\ IF rest = << >>
              THEN /\ stream_pc' = [stream_pc EXCEPT ![s] = "send"]
                   /\ stream_events' = [stream_events EXCEPT ![s] = NoEvents]
              ELSE /\ stream_pc' = [stream_pc EXCEPT ![s] = "history"]
                   /\ stream_events' = [stream_events EXCEPT ![s] =
                          [kind |-> "History", history |-> rest]]

\* events(): the response is Events::History. The stream yields the first
\* event of the batch in the poll that receives the response; an empty
\* batch ends at once and the loop starts over.
ResponseHistory(s) ==
    /\ stream_pc[s] = "await"
    /\ response[s].kind = "History"
    /\ response' = [response EXCEPT ![s] = NoResponse]
    /\ IF response[s].history = << >>
          THEN /\ stream_pc' = [stream_pc EXCEPT ![s] = "send"]
               /\ UNCHANGED << stream_last_event_id, emitted, stream_events, sse >>
          ELSE YieldFrom(s, response[s].history)
    /\ UNCHANGED << lags, workload, http_status, filter, unsent, stream_errors, lifecycle, submitted, events_table, history_last_event_id, receiver, current,
                    client_pc, first_last_event_id >>

\* events(): the response is the failure of the history query. The stream
\* yields an error item and keeps its cursor; it then ends or asks again.
ResponseFailed(s) ==
    /\ stream_pc[s] = "await"
    /\ response[s].kind = "Failed"
    /\ response' = [response EXCEPT ![s] = NoResponse]
    /\ stream_errors' = [stream_errors EXCEPT ![s] = @ + 1]
    /\ sse' = [sse EXCEPT ![s] = EventSource_receive(@, SseEvent_of([kind |-> "Err"]))]
    /\ \E then \in {"send", "ended"} : stream_pc' = [stream_pc EXCEPT ![s] = then]
    /\ UNCHANGED << lags, workload, http_status, filter, unsent, lifecycle, submitted,
                    events_table, history_last_event_id, receiver, current,
                    client_pc, stream_last_event_id, stream_events,
                    first_last_event_id, emitted >>

\* events(): the response is Events::Current. The stream holds the receiver
\* and calls recv() on it.
ResponseCurrent(s) ==
    /\ stream_pc[s] = "await"
    /\ response[s].kind = "Current"
    /\ response' = [response EXCEPT ![s] = NoResponse]
    /\ stream_pc' = [stream_pc EXCEPT ![s] = "current"]
    /\ stream_events' = [stream_events EXCEPT ![s] = response[s]]
    /\ UNCHANGED << lags, workload, edge, lifecycle, submitted, events_table, history_last_event_id, receiver, current,
                    client_pc, stream_last_event_id, first_last_event_id,
                    emitted >>

\* Events::History: the next event of the batch is yielded.
YieldHistory(s) ==
    /\ stream_pc[s] = "history"
    /\ YieldFrom(s, stream_events[s].history)
    /\ UNCHANGED << lags, workload, http_status, filter, unsent, stream_errors, lifecycle, submitted, events_table, history_last_event_id, receiver, current,
                    response, client_pc, first_last_event_id >>

\* A stream that gives up its receiver after every live event and asks the
\* actor again.
YieldCurrentThenAsks(s) ==
    /\ stream_pc[s] = "current"
    /\ Ready(current, stream_events[s])
    /\ LET event == ValueAt(current, stream_events[s].next)
       IN  /\ stream_last_event_id' = [stream_last_event_id EXCEPT ![s] =
                  AdvanceCursor(stream_last_event_id[s], event)]
           /\ emitted' = [emitted EXCEPT ![s] =
                  Append(@, event)]
           /\ sse' = [sse EXCEPT ![s] =
                  EventSource_receive(@, SseEvent_of([kind |-> "Ok", event |-> event]))]
    /\ stream_events' = [stream_events EXCEPT ![s] = NoEvents]
    /\ stream_pc' = [stream_pc EXCEPT ![s] = "send"]
    /\ UNCHANGED << lags, workload, http_status, filter, unsent, stream_errors, lifecycle, submitted, events_table, history_last_event_id, receiver, current,
                    response, client_pc, first_last_event_id >>

\* Events::Current, recv() returned Ok(event): the event is yielded.
YieldCurrent(s) ==
    /\ stream_pc[s] = "current"
    /\ Ready(current, stream_events[s])
    /\ LET event == ValueAt(current, stream_events[s].next)
       IN  /\ stream_last_event_id' = [stream_last_event_id EXCEPT ![s] =
                  AdvanceCursor(stream_last_event_id[s], event)]
           /\ emitted' = [emitted EXCEPT ![s] =
                  Append(@, event)]
           /\ sse' = [sse EXCEPT ![s] =
                  EventSource_receive(@, SseEvent_of([kind |-> "Ok", event |-> event]))]
    /\ stream_events' = [stream_events EXCEPT ![s].next = @ + 1]
    /\ UNCHANGED << lags, workload, http_status, filter, unsent, stream_errors, lifecycle, submitted, events_table, history_last_event_id, receiver, current,
                    response, client_pc, stream_pc, first_last_event_id >>

\* A lagging receiver that goes on with the oldest value the ring retains.
ContinueAfterLag(s) ==
    /\ stream_pc[s] = "current"
    /\ Lagged(current, stream_events[s])
    /\ stream_events' = [stream_events EXCEPT ![s].next = current.pos - RingCapacity]
    /\ lags' = [lags EXCEPT ![s] = @ + 1]
    /\ UNCHANGED << workload, edge, lifecycle, submitted, events_table, history_last_event_id, receiver,
                    current, response, client_pc, stream_pc,
                    stream_last_event_id, first_last_event_id, emitted >>

\* Events::Current, recv() returned Lagged: the receiver is given up and the
\* loop starts over with the last yielded id.
LaggedCurrent(s) ==
    /\ stream_pc[s] = "current"
    /\ Lagged(current, stream_events[s])
    /\ stream_pc' = [stream_pc EXCEPT ![s] = "send"]
    /\ stream_events' = [stream_events EXCEPT ![s] = NoEvents]
    /\ lags' = [lags EXCEPT ![s] = @ + 1]
    /\ UNCHANGED << workload, edge, lifecycle, submitted, events_table, history_last_event_id, receiver,
                    current, response, client_pc, stream_last_event_id,
                    first_last_event_id, emitted >>

\* A caller's ChatClient is dropped, with the add_message future it may be
\* awaiting; a request it has sent stays in the channel.
DropClient(c) ==
    /\ c \in workload.leaving
    /\ client_pc[c] \in {"idle", "awaiting"}
    /\ client_pc' = [client_pc EXCEPT ![c] = "dropped"]
    /\ response' = [response EXCEPT ![c] = NoResponse]
    /\ UNCHANGED << lags, workload, edge, lifecycle, submitted, events_table,
                    history_last_event_id, receiver, current, stream_pc,
                    stream_last_event_id, stream_events, first_last_event_id,
                    emitted >>

\* An events() stream is dropped, with the ChatClient it owns, the response
\* it may be awaiting and the receiver it may hold.
DropStream(s) ==
    /\ s \in workload.leaving
    /\ stream_pc[s] \notin {"unopened", "dropped"}
    /\ stream_pc' = [stream_pc EXCEPT ![s] = "dropped"]
    /\ stream_events' = [stream_events EXCEPT ![s] = NoEvents]
    /\ response' = [response EXCEPT ![s] = NoResponse]
    /\ UNCHANGED << lags, workload, edge, lifecycle, submitted, events_table,
                    history_last_event_id, receiver, current, client_pc,
                    stream_last_event_id, first_last_event_id, emitted >>

(***************************************************************************)
(* Coordinator: src/src/chat/shared.rs, Actor                              *)
(***************************************************************************)
\* The newest request of the channel.
NewestRequest(queue) == queue[Len(queue)]

\* A send that leaves its value in the channel whether or not anyone is
\* left to receive it.
RespondUnchecked(resp, responder, pc, value) ==
    [resp EXCEPT ![responder] = value]

\* responder.send(value): the value reaches the caller unless the caller
\* has dropped its end, and then it is discarded.
Respond(resp, responder, pc, value) ==
    IF pc[responder] = "dropped" THEN resp
    ELSE [resp EXCEPT ![responder] = value]

\* `let _ = responder.send(value)`: the send fails when the caller has
\* dropped its end and hands the value back, and the actor drops it. The
\* value last handed back is kept.
SendError(last, responder, pc, value) ==
    IF pc[responder] = "dropped" THEN value ELSE last

\* Actor::run takes the oldest request of the channel.
NextRequest(queue) == Head(queue)
Remaining(queue) == Tail(queue)

\* The Events value the actor answers a ReadEvents with.
ReadEventsReply(remaining_history, ch, max_id) ==
    IF remaining_history = << >>
        THEN broadcast_subscribe(ch, max_id)
        ELSE [kind |-> "History", history |-> remaining_history]

\* What the actor answers a ReadEvents with when the history query failed:
\* the failure, neither a batch nor a receiver.
ReadFailedReply == [kind |-> "Failed"]

\* The faults the history query of the request may meet.
ReadFaultsFor(msg) ==
    IF workload.read_faults /\ stream_errors[msg.responder] < MaxErrors
        THEN ReadFaults ELSE {"none"}

\* handle_message, ReadEvents arm, with the fault the history query meets.
HandleReadEventsWith(fault) ==
    /\ receiver # << >>
    /\ NextRequest(receiver).type = "ReadEvents"
    /\ \E msg \in {NextRequest(receiver)} :
       \E result \in {events_since_result(events_table, msg.last_event_id, fault)} :
           /\ fault \in ReadFaultsFor(msg)
           /\ response' = Respond(response, msg.responder, stream_pc,
                  IF result.kind = "Err" THEN ReadFailedReply
                  ELSE ReadEventsReply(result.events, current, MaxStoredId))
           /\ unsent' = SendError(unsent, msg.responder, stream_pc,
                  IF result.kind = "Err" THEN ReadFailedReply
                  ELSE ReadEventsReply(result.events, current, MaxStoredId))
    /\ receiver' = Remaining(receiver)
    /\ UNCHANGED << lags, workload, http_status, filter, stream_errors, sse, lifecycle, submitted, events_table, history_last_event_id, current, client_pc,
                    stream_pc, stream_last_event_id, stream_events,
                    first_last_event_id, emitted >>

HandleReadEvents == \E fault \in ReadFaults : HandleReadEventsWith(fault)

\* An actor that answers Ok whatever record_message returned.
ReplyAlwaysOk(returns) == [kind |-> "Ok", recorded |-> "New"]

\* What the actor sends back for the result of record_message: Ok(()) or
\* the error. `recorded` notes which of the two Ok results it was.
AddMessageReply(returns) ==
    CASE returns.kind = "Some" -> [kind |-> "Ok", recorded |-> "New"]
      [] returns.kind = "None" -> [kind |-> "Ok", recorded |-> "Duplicate"]
      [] returns.kind = "Conflict" -> [kind |-> "Err", error |-> "Conflict"]
      [] OTHER -> [kind |-> "Err", error |-> "Internal"]

\* What the actor publishes for the result of record_message.
Publish(ch, returns, receivers) ==
    IF returns.kind = "Some"
        THEN broadcast_send(ch, returns.event, receivers)
        ELSE ch

\* The journal of the messages whose add_message was answered Ok, in the
\* order the actor handled them; kept in the workloads that ask for it.
Journal(journal, message, reply) ==
    IF workload.journal /\ reply.kind = "Ok" THEN Append(journal, message)
    ELSE journal

\* An actor that passes the error of current.send on to the caller: with no
\* receiver alive a new message is answered with an error.
FailsWithoutReceivers(now, fault) ==
    /\ receiver # << >>
    /\ NextRequest(receiver).type = "AddMessage"
    /\ \E msg \in {NextRequest(receiver)} :
       \E result \in {record_message(events_table, history_last_event_id,
                                    msg.message, now, fault)} :
       \E reply \in {IF result.returns.kind = "Some"
                           /\ rx_cnt(response, stream_events) = 0
                         THEN [kind |-> "Err", error |-> "Internal"]
                         ELSE AddMessageReply(result.returns)} :
           /\ events_table' = result.table
           /\ history_last_event_id' = result.last_event_id
           /\ current' = Publish(current, result.returns,
                                 rx_cnt(response, stream_events))
           /\ response' = Respond(response, msg.responder, client_pc, reply)
           /\ submitted' = Journal(submitted, msg.message, reply)
           /\ unsent' = SendError(unsent, msg.responder, client_pc, reply)
    /\ receiver' = Remaining(receiver)
    /\ UNCHANGED << lags, workload, http_status, filter, stream_errors, sse, lifecycle,
                    client_pc, stream_pc, stream_last_event_id, stream_events,
                    first_last_event_id, emitted >>

\* An actor that looks for the caller first and records nothing for a
\* caller that has gone.
RecordsForWaitingCallers(now, fault) ==
    /\ receiver # << >>
    /\ NextRequest(receiver).type = "AddMessage"
    /\ \E msg \in {NextRequest(receiver)} :
       \E result \in {IF client_pc[msg.responder] = "dropped"
                          THEN [returns |-> [kind |-> "None"],
                                table |-> events_table,
                                last_event_id |-> history_last_event_id]
                          ELSE record_message(events_table, history_last_event_id,
                                              msg.message, now, fault)} :
           /\ events_table' = result.table
           /\ history_last_event_id' = result.last_event_id
           /\ current' = Publish(current, result.returns,
                                 rx_cnt(response, stream_events))
           /\ response' = Respond(response, msg.responder, client_pc,
                                   AddMessageReply(result.returns))
           /\ submitted' = Journal(submitted, msg.message,
                                   AddMessageReply(result.returns))
           /\ unsent' = SendError(unsent, msg.responder, client_pc,
                                  AddMessageReply(result.returns))
    /\ receiver' = Remaining(receiver)
    /\ UNCHANGED << lags, workload, http_status, filter, stream_errors, sse, lifecycle,
                    client_pc, stream_pc, stream_last_event_id, stream_events,
                    first_last_event_id, emitted >>

\* handle_message, AddMessage arm, with the clock reading `now` and the
\* storage raising `fault`.
HandleAddMessageWith(now, fault) ==
    /\ receiver # << >>
    /\ NextRequest(receiver).type = "AddMessage"
    /\ \E msg \in {NextRequest(receiver)} :
       \E result \in {record_message(events_table, history_last_event_id,
                                    msg.message, now, fault)} :
           /\ events_table' = result.table
           /\ history_last_event_id' = result.last_event_id
           /\ current' = Publish(current, result.returns,
                                 rx_cnt(response, stream_events))
           /\ response' = Respond(response, msg.responder, client_pc,
                                   AddMessageReply(result.returns))
           /\ submitted' = Journal(submitted, msg.message,
                                   AddMessageReply(result.returns))
           /\ unsent' = SendError(unsent, msg.responder, client_pc,
                                  AddMessageReply(result.returns))
    /\ receiver' = Remaining(receiver)
    /\ UNCHANGED << lags, workload, http_status, filter, stream_errors, sse, lifecycle, client_pc, stream_pc,
                    stream_last_event_id, stream_events, first_last_event_id,
                    emitted >>

HandleAddMessage ==
    \E now \in workload.clock, fault \in Faults : HandleAddMessageWith(now, fault)

(***************************************************************************)
(* Runtime: ChatRuntime::shutdown, SqLiteChatHistory::new                   *)
(***************************************************************************)
\* A count of the senders that leaves out those the streams hold.
OnlyCallersCount ==
    \A c \in Submitters : client_pc[c] \in {"absent", "dropped"}

AllClientsDropped ==
    /\ \A c \in Submitters : client_pc[c] \in {"absent", "dropped"}
    /\ \A s \in Subscribers : stream_pc[s] \in {"unopened", "dropped"}

\* A channel that counts as closed as soon as the runtime's sender has
\* been dropped, whoever else holds one.
ClosedByRuntimeAlone(rt, clients_dropped) == rt = "stopping"

\* An actor that keeps a sender of its own never sees the channel closed.
ActorKeepsSender(rt, clients_dropped) == FALSE

\* The request channel is closed once the runtime's sender and every
\* client's sender have been dropped.
ChannelClosed(rt, clients_dropped) == rt = "stopping" /\ clients_dropped

\* ChatRuntime::shutdown up to the await: it drops the runtime's sender.
\* It is called once every client has been dropped (the debug assertion);
\* the workloads marked `early` call it before that.
Shutdown ==
    /\ runtime = "running"
    /\ AllClientsDropped \/ workload.early
    /\ runtime' = "stopping"
    /\ UNCHANGED << workload, edge, submitted, user_version, schema, opens, open_result,
                    events_table, history_last_event_id, receiver, current,
                    response, client_pc, stream_pc, stream_last_event_id,
                    stream_events, first_last_event_id, emitted, lags >>

\* An actor that returns as soon as the channel is closed, whatever the
\* channel still holds.
ActorExitsUndrained ==
    /\ ChannelClosed(runtime, AllClientsDropped)
    /\ runtime' = "exited"
    /\ UNCHANGED << workload, edge, submitted, user_version, schema, opens, open_result,
                    events_table, history_last_event_id, receiver, current,
                    response, client_pc, stream_pc, stream_last_event_id,
                    stream_events, first_last_event_id, emitted, lags >>

\* Actor::run: recv() returns None once the channel is closed and empty;
\* the actor returns and its history, with the connection, is dropped.
ActorExit ==
    /\ ChannelClosed(runtime, AllClientsDropped)
    /\ receiver = << >>
    /\ runtime' = "exited"
    /\ UNCHANGED << workload, edge, submitted, user_version, schema, opens, open_result,
                    events_table, history_last_event_id, receiver, current,
                    response, client_pc, stream_pc, stream_last_event_id,
                    stream_events, first_last_event_id, emitted, lags >>

\* ChatRuntime::shutdown from the await on: the join handle resolves.
ShutdownReturn ==
    /\ runtime = "exited"
    /\ runtime' = "closed"
    /\ UNCHANGED << workload, edge, submitted, user_version, schema, opens, open_result,
                    events_table, history_last_event_id, receiver, current,
                    response, client_pc, stream_pc, stream_last_event_id,
                    stream_events, first_last_event_id, emitted, lags >>

\* While the program is not running, a later version of it migrates the
\* database file to its schema.
UpgradeByNewerVersion ==
    /\ runtime = "closed"
    /\ user_version = SupportedVersion
    /\ user_version' \in FutureVersions
    /\ UNCHANGED << workload, edge, submitted, runtime, schema, opens, open_result,
                    events_table, history_last_event_id, receiver, current,
                    response, client_pc, stream_pc, stream_last_event_id,
                    stream_events, first_last_event_id, emitted, lags >>

\* SqLiteChatHistory::new on the path of the closed database, followed by
\* ChatRuntime::new and new clients when it succeeds.
Open ==
    /\ runtime = "closed"
    /\ opens < MaxOpens
    /\ opens' = opens + 1
    /\ \E db \in {OpenedFile(user_version, events_table)} :
       \E outcome \in {migrate(db.version)} :
       \E fault \in MigrateFaultsFor(outcome) :
       \E committed \in {migrate_transaction(db.version, schema, outcome, fault)} :
          /\ user_version' = committed.version
          /\ schema' = committed.schema
          /\ events_table' = db.table
          /\ open_result' = open_status(committed, outcome)
          /\ IF open_status(committed, outcome) = "Ok"
                THEN /\ runtime' = "running"
                     /\ history_last_event_id' = LastEventIdOnOpen(db.table)
                     /\ receiver' = << >>
                     /\ current' = NewChannel
                     /\ response' = [c \in Submitters \cup Subscribers |-> NoResponse]
                     /\ client_pc' = NewClients
                     /\ stream_pc' = NewStreams
                     /\ first_last_event_id' \in FirstLastEventIds
                     /\ stream_last_event_id' = first_last_event_id'
                     /\ stream_events' = [s \in Subscribers |-> NoEvents]
                     /\ emitted' = [s \in Subscribers |-> << >>]
                     /\ lags' = [s \in Subscribers |-> 0]
                     /\ http_status' = [c \in Submitters |-> "none"]
                     /\ stream_errors' = [s \in Subscribers |-> 0]
                     /\ sse' = NewConnections(first_last_event_id')
                     /\ unsent' = NoResponse
                ELSE UNCHANGED << runtime, history_last_event_id, receiver,
                                  current, response, client_pc, stream_pc,
                                  first_last_event_id, stream_last_event_id,
                                  stream_events, emitted, lags, http_status,
                                  stream_errors, sse, unsent >>
    /\ UNCHANGED << workload, submitted, filter >>

Next ==
    \/ \E c \in Submitters : AddMessageSend(c)
    \/ \E c \in Submitters : AddMessageReturn(c)
    \/ \E s \in Subscribers : EventsSend(s)
    \/ \E s \in Subscribers : ResponseHistory(s)
    \/ \E s \in Subscribers : ResponseCurrent(s)
    \/ \E s \in Subscribers : ResponseFailed(s)
    \/ \E s \in Subscribers : YieldHistory(s)
    \/ \E s \in Subscribers : YieldCurrent(s)
    \/ \E s \in Subscribers : LaggedCurrent(s)
    \/ \E c \in Submitters : DropClient(c)
    \/ \E s \in Subscribers : DropStream(s)
    \/ HandleReadEvents
    \/ HandleAddMessage
    \/ Shutdown
    \/ ActorExit
    \/ ShutdownReturn
    \/ UpgradeByNewerVersion
    \/ Open

Spec == Init /\ [][Next]_vars

\* The actor task and every events() stream are polled again and again: the
\* runtime schedules a task that can make progress, and the consumer of a
\* stream that has resumed pulling goes on pulling.
ActorStep == HandleReadEvents \/ HandleAddMessage
StreamStep(s) ==
    \/ EventsSend(s)
    \/ ResponseHistory(s)
    \/ ResponseCurrent(s)
    \/ ResponseFailed(s)
    \/ YieldHistory(s)
    \/ YieldCurrent(s)
    \/ LaggedCurrent(s)
Fairness ==
    /\ WF_vars(ActorStep)
    /\ \A s \in Subscribers : WF_vars(StreamStep(s))
    /\ WF_vars(ActorExit)
    /\ WF_vars(ShutdownReturn)
\* The workload that overruns the ring and the one that shuts down.
InitLive == Init /\ workload.name \in {"burst", "restart"}
SpecLive == InitLive /\ [][Next]_vars /\ Fairness

(***************************************************************************)
(* Termination filter: the signal's sender and the polls of the stream     *)
(***************************************************************************)
\* watch::Sender::send(value), as set_sabotage and the shutdown do.
SignalSend(value) ==
    /\ ~filter.signal.closed
    /\ filter.signal.version < MaxSends
    /\ filter' = [filter EXCEPT !.signal = watch_send(@, value),
                                !.told = @ \/ value]
    /\ UNCHANGED chat

\* The sender of the signal is dropped.
SignalDrop ==
    /\ ~filter.signal.closed
    /\ filter' = [filter EXCEPT !.signal.closed = TRUE]
    /\ UNCHANGED chat

\* One turn of the loop of terminate_if.
Poll ==
    /\ filter.pc = "polling"
    /\ \E changed \in {watch_changed(filter.signal, filter.seen)} :
       \E branch \in {select_biased(changed, filter.org)} :
          /\ branch # "pending"
          /\ filter' =
                IF branch = "signal"
                    THEN [filter EXCEPT !.seen = filter.signal.version,
                                        !.pc = on_changed(changed, filter.signal.value)]
                ELSE IF filter.org.items # << >>
                    THEN [filter EXCEPT !.out = Append(@, Head(filter.org.items)),
                                        !.org.items = Tail(@)]
                ELSE [filter EXCEPT !.pc = "ended"]
    /\ UNCHANGED chat

\* One turn of the loop that forwards the remaining items once the sender
\* has been found dropped.
Drain ==
    /\ filter.pc = "draining"
    /\ OrgReady(filter.org)
    /\ filter' =
          IF filter.org.items # << >>
              THEN [filter EXCEPT !.out = Append(@, Head(filter.org.items)),
                                  !.org.items = Tail(@),
                                  !.drained = @ + 1]
              ELSE [filter EXCEPT !.pc = "ended"]
    /\ UNCHANGED chat

NextFilter ==
    \/ \E value \in BOOLEAN : SignalSend(value)
    \/ SignalDrop
    \/ Poll
    \/ Drain

\* A filter around any of the wrapped streams, with a new signal.
InitFilter ==
    /\ InitChat
    /\ workload.name = "restart"
    /\ first_last_event_id = [s \in Subscribers |-> before_all]
    /\ filter \in {terminate_if(org, watch_channel(FALSE)) : org \in OrgStreams}
SpecFilter == InitFilter /\ [][NextFilter]_vars

(***************************************************************************)
(* Properties                                                              *)
(***************************************************************************)
EmittedIds(s) == {emitted[s][i].id : i \in 1 .. Len(emitted[s])}
StoredMessageIds == {r.message_id : r \in events_table}

\* C1: within one events() stream, the event yielded after the event with
\* id k has id k + 1: no id is skipped and none is yielded twice, also when
\* the stream lagged behind the ring and went back to the history.
C1_NextEmittedIsSuccessor ==
    \A s \in Subscribers : \A i \in 1 .. Len(emitted[s]) - 1 :
        emitted[s][i + 1].id = emitted[s][i].id + 1

\* A stream that lagged once has yielded three events and is live again.
C1_Witness ==
    \E s \in Subscribers :
        /\ lags[s] >= 1
        /\ Len(emitted[s]) >= 3
        /\ stream_pc[s] = "current"

\* C2: every event a stream yields has an id greater than the
\* last_event_id events() was called with, whatever that argument is and
\* whether the event came from a history batch or from the live receiver.
C2_EmittedIdsExceedLastEventId ==
    \A s \in Subscribers : \A i \in 1 .. Len(emitted[s]) :
        emitted[s][i].id > first_last_event_id[s]

\* C3: the stored event ids are exactly 1 .. N; an attempt that ends as
\* Duplicate, Conflict or storage failure takes no id.
C3_StoredIdsAreOneToN ==
    /\ Cardinality(StoredIds) = Cardinality(events_table)
    /\ StoredIds = 1 .. Cardinality(events_table)

\* Two events are stored while a duplicate, a conflict or a failure has
\* just been answered.
C3_Witness ==
    /\ Cardinality(events_table) >= 2
    /\ \E c \in Submitters :
          \/ response[c].kind = "Err"
          \/ response[c].kind = "Ok" /\ response[c].recorded = "Duplicate"

\* C4: the log holds at most one event for each message id.
C4_OneEventPerMessageId ==
    \A r, q \in events_table : r.message_id = q.message_id => r = q

\* A message id that is stored has been submitted again, and the attempt
\* has been answered as a duplicate or as a conflict.
C4_Witness ==
    \E c \in Submitters :
        /\ events_table # {}
        /\ \/ response[c].kind = "Err" /\ response[c].error = "Conflict"
           \/ response[c].kind = "Ok" /\ response[c].recorded = "Duplicate"

\* The message has been recorded: id, sender and content are those of a
\* stored event.
Recorded(message) == \E e \in StoredEvents : e.message = message
\* The id of the message is that of a stored event whose sender or content
\* differs.
Conflicting(message) ==
    \E e \in StoredEvents :
        /\ e.message.id = message.id
        /\ e.message.sender # message.sender \/ e.message.content # message.content
\* record_message ends in a storage failure: the INSERT fails, or the lookup
\* after a UNIQUE violation does.
StorageFails(fault, message) ==
    \/ fault = "insert"
    \/ fault = "lookup" /\ message.id \in StoredMessageIds

\* The caller of add_message still awaits the answer to its request.
Waiting(c) == client_pc[c] = "awaiting"

\* C5: when the actor handles an AddMessage whose message equals that of a
\* recorded event, the table, the id counter and the broadcast ring stay as
\* they are and, with the storage raising no fault, the caller (if it still
\* awaits the answer) gets Ok; no
\* stream yields two events for one message id.
C5_DuplicateStep ==
    \A now \in workload.clock, fault \in Faults :
        (HandleAddMessageWith(now, fault) /\ Recorded(NextRequest(receiver).message))
            => /\ UNCHANGED << events_table, history_last_event_id, current >>
               /\ (fault = "none" /\ Waiting(NextRequest(receiver).responder)) =>
                      response'[NextRequest(receiver).responder].kind = "Ok"
               /\ \A s \in Subscribers : \A i, j \in 1 .. Len(emitted'[s]) :
                      emitted'[s][i].message.id = emitted'[s][j].message.id
                          => i = j
C5_ResubmitIsIdempotent == [][C5_DuplicateStep]_vars

\* A caller has been answered Ok for a message that was recorded before,
\* while a stream holds a live receiver.
C5_Witness ==
    \E c \in Submitters, s \in Subscribers :
        /\ response[c].kind = "Ok"
        /\ response[c].recorded = "Duplicate"
        /\ stream_pc[s] = "current"

\* C6: when the actor handles an AddMessage whose id is that of a recorded
\* event with another sender or content, the table (and with it the id,
\* sender, content and timestamp of the recorded event), the id counter and
\* the broadcast ring stay as they are and, with the storage raising no
\* fault, the caller (if it still awaits the answer) gets Err(Conflict).
C6_ConflictStep ==
    \A now \in workload.clock, fault \in Faults :
        (HandleAddMessageWith(now, fault) /\ Conflicting(NextRequest(receiver).message))
            => /\ UNCHANGED << events_table, history_last_event_id, current >>
               /\ (fault = "none" /\ Waiting(NextRequest(receiver).responder)) =>
                      response'[NextRequest(receiver).responder] =
                          [kind |-> "Err", error |-> "Conflict"]
C6_ConflictIsRejected == [][C6_ConflictStep]_vars

\* A caller has been answered Err(Conflict) while a stream holds a live
\* receiver and the one event recorded is still stored.
C6_Witness ==
    \E c \in Submitters, s \in Subscribers :
        /\ response[c] = [kind |-> "Err", error |-> "Conflict"]
        /\ stream_pc[s] = "current"
        /\ Cardinality(events_table) = 1

\* C7: when record_message ends in a storage failure the caller (if it
\* still awaits the answer) gets Err(Internal), the table, the id counter and the broadcast ring stay as
\* they are and the request leaves the queue; the actor can always handle
\* the request at the head of its queue.
C7_FailureStep ==
    \A now \in workload.clock, fault \in Faults :
        (HandleAddMessageWith(now, fault)
            /\ StorageFails(fault, NextRequest(receiver).message))
            => /\ Waiting(NextRequest(receiver).responder) =>
                      response'[NextRequest(receiver).responder] =
                          [kind |-> "Err", error |-> "Internal"]
               /\ UNCHANGED << events_table, history_last_event_id, current >>
               /\ receiver' = Tail(receiver)
C7_ActorServes == receiver # << >> => ENABLED ActorStep
C7_StorageFailureIsInternal == [][C7_FailureStep]_vars /\ []C7_ActorServes

\* One caller has been answered Err(Internal) and another Ok for a message
\* that was recorded; the one event stored has id 1.
C7_Witness ==
    \E c, d \in Submitters :
        /\ response[c] = [kind |-> "Err", error |-> "Internal"]
        /\ response[d] = [kind |-> "Ok", recorded |-> "New"]
        /\ StoredIds = {1}

\* The receivers alive: in a response on its way, or held by a stream.
LiveReceivers ==
    {response[s] : s \in {t \in Subscribers : response[t].kind = "Current"}}
        \cup {stream_events[s] : s \in {t \in Subscribers : stream_events[t].kind = "Current"}}

\* C8: a receiver handed out in answer to a ReadEvents that found nothing
\* sees the events recorded after that query and no other: the ring has
\* advanced by as many values as events were recorded since, the receiver
\* never stands before the position it was created at, and unless it lags
\* the values it has not taken yet are the stored events that follow, in
\* the order of their ids.
C8_ReceiverSeesWhatFollows ==
    \A rx \in LiveReceivers :
        /\ current.pos - rx.start = MaxStoredId - rx.since
        /\ rx.next >= rx.start
        /\ ~Lagged(current, rx) =>
              \A p \in rx.next .. current.pos - 1 :
                  /\ ValueAt(current, p) \in StoredEvents
                  /\ ValueAt(current, p).id = rx.since + 1 + (p - rx.start)

\* A stream was answered with a receiver when an event was already stored,
\* and an event recorded afterwards waits in the ring for it.
C8_Witness ==
    \E s \in Subscribers :
        /\ stream_events[s].kind = "Current"
        /\ stream_events[s].since >= 1
        /\ Ready(current, stream_events[s])

\* C9: once a stream has lagged, every stored event with an id above the
\* id it yielded last is eventually yielded by it, unless the stream is
\* dropped or ended by a failure of the storage first.
C9_LaggedStreamCatchesUp ==
    \A s \in Subscribers : \A i \in 1 .. Cardinality(MessageIds) :
        (lags[s] >= 1 /\ i \in StoredIds /\ i > stream_last_event_id[s])
            ~> (i \in EmittedIds(s) \/ stream_pc[s] \in {"dropped", "ended"})

\* A stream that lagged has yielded every stored event, the ones recorded
\* while it stalled included.
C9_Witness ==
    \E s \in Subscribers :
        /\ lags[s] = 1
        /\ Cardinality(StoredIds) = Cardinality(MessageIds)
        /\ EmittedIds(s) = StoredIds

\* C10: a step that records an event records one event, for the message of
\* the request at the head of the queue, takes that request off the queue
\* and gives the event an id above every id stored before.
C10_RecordStep ==
    \A r \in events_table' \ events_table :
        /\ events_table' = events_table \cup {r}
        /\ \A q \in events_table : q.id < r.id
        /\ receiver # << >>
        /\ Head(receiver).type = "AddMessage"
        /\ Head(receiver).message.id = r.message_id
        /\ Head(receiver).message.sender = r.sender
        /\ receiver' = Tail(receiver)
C10_IdsFollowQueueOrder == [][C10_RecordStep]_vars

\* Two callers have each had a message recorded, one after the other.
C10_Witness ==
    \E r, q \in events_table :
        /\ r.id = 1
        /\ q.id = 2
        /\ r.sender # q.sender

\* C11: two streams that have both yielded an event with some id have
\* yielded the same event (message id, sender, content, timestamp_ms), be
\* it from a history batch or from the live receiver, and each stream
\* yields ids in strictly increasing order.
C11_StreamsAgree ==
    /\ \A s, t \in Subscribers :
          \A i \in 1 .. Len(emitted[s]), j \in 1 .. Len(emitted[t]) :
              emitted[s][i].id = emitted[t][j].id => emitted[s][i] = emitted[t][j]
    /\ \A s \in Subscribers : \A i, j \in 1 .. Len(emitted[s]) :
          i < j => emitted[s][i].id < emitted[s][j].id

\* One stream has taken all it yielded from its live receiver, another is
\* in the middle of a history batch, and both have yielded the same first
\* event.
C11_Witness ==
    \E s, t \in Subscribers :
        /\ stream_events[s].kind = "Current"
        /\ Len(emitted[s]) >= 1
        /\ Len(emitted[s]) = stream_events[s].next - stream_events[s].start
        /\ stream_pc[t] = "history"
        /\ Len(emitted[t]) = 1
        /\ emitted[t][1].id = emitted[s][1].id

\* What a stream opened with last_event_id 0 has yielded so far agrees with
\* the journal, element by element.
YieldedAgreesWithJournal ==
    \A s \in Subscribers :
        first_last_event_id[s] = before_all =>
            \A i \in 1 .. Len(emitted[s]) :
                i <= Len(submitted) => emitted[s][i].message = submitted[i]
\* The messages of the stored events, in the order of their ids.
StoredMessages ==
    LET history == events_since(events_table, before_all)
    IN  [i \in 1 .. Len(history) |-> history[i].message]
\* No message id occurs twice in the journal.
JournalIdsDistinct ==
    \A i, j \in 1 .. Len(submitted) : submitted[i].id = submitted[j].id => i = j

\* C12 as stated: for any sequence of messages submitted one after the
\* other to a fresh store, the events of events(0) carry those messages
\* element by element.
C12_RoundTripAnySequence == workload.journal => YieldedAgreesWithJournal

\* C12, for messages with pairwise distinct ids: the stored events, in id
\* order, carry exactly the submitted messages, and what a stream opened
\* with last_event_id 0 has yielded agrees with them element by element.
C12_RoundTripDistinctIds ==
    (workload.journal /\ JournalIdsDistinct) =>
        /\ StoredMessages = submitted
        /\ YieldedAgreesWithJournal
        /\ \A s \in Subscribers : Len(emitted[s]) <= Len(submitted)

\* Two different messages have been submitted and a stream opened with
\* last_event_id 0 has yielded both events.
C12_Witness ==
    \E s \in Subscribers :
        /\ workload.journal
        /\ JournalIdsDistinct
        /\ Len(submitted) = 2
        /\ first_last_event_id[s] = before_all
        /\ Len(emitted[s]) = 2

\* C13: a successful open of the closed database leaves events_since(0) as
\* it was before closing: the same events with the same ids, messages and
\* timestamps in the same order; and what a stream opened with
\* last_event_id 0 has yielded is a prefix of events_since(0).
C13_ReopenStep ==
    (Open /\ open_result' = "Ok") =>
        events_since(events_table', before_all) = events_since(events_table, before_all)
C13_SubscribeYieldsLog ==
    \A s \in Subscribers :
        first_last_event_id[s] = before_all =>
            /\ Len(emitted[s]) <= Len(events_since(events_table, before_all))
            /\ \A i \in 1 .. Len(emitted[s]) :
                  emitted[s][i] = events_since(events_table, before_all)[i]
C13_ReopenKeepsEvents == [][C13_ReopenStep]_vars /\ []C13_SubscribeYieldsLog

\* The database has been opened again and nothing has been recorded since
\* (the ring of the new runtime is empty); a stream opened with
\* last_event_id 0 has yielded the two events recorded before closing.
C13_Witness ==
    \E s \in Subscribers :
        /\ opens = 1
        /\ runtime = "running"
        /\ current.pos = 0
        /\ Cardinality(events_table) = 2
        /\ first_last_event_id[s] = before_all
        /\ Len(emitted[s]) = 2

\* C14: opening a database whose user_version is above the supported
\* version fails with the error of the newer version, and leaves the stored
\* user_version and the stored events as they are; no runtime is started.
C14_RefusalStep ==
    (Open /\ user_version > SupportedVersion) =>
        /\ open_result' = "Chat History has been created by a newer version. To load it you need to upgrade to a newer version."
        /\ UNCHANGED << user_version, events_table >>
        /\ runtime' = "closed"
C14_NewerSchemaIsRefused == [][C14_RefusalStep]_vars

\* An open has been refused for a database that holds an event and has the
\* user_version 1000.
C14_Witness ==
    /\ open_result # "Ok"
    /\ opens = 1
    /\ user_version = 1000
    /\ events_table # {}

\* C16: once every client and the runtime's own sender have been dropped,
\* the actor handles what is left in the channel, its receive returns the
\* end of the channel, the actor exits and ChatRuntime::shutdown completes.
C16_ShutdownCompletes ==
    (AllClientsDropped /\ runtime = "stopping") ~> (runtime = "closed")

\* shutdown has completed after the actor had recorded an event.
C16_Witness ==
    /\ runtime = "closed"
    /\ opens = 0
    /\ AllClientsDropped
    /\ receiver = << >>
    /\ events_table # {}

\* C15: for every pair of stored events the order of the ids is the order
\* of the timestamps: id(a) < id(b) implies timestamp_ms(a) <=
\* timestamp_ms(b), whatever the wall clock returns.
C15_TimestampsFollowIds ==
    \A a, b \in StoredEvents : a.id < b.id => a.timestamp_ms <= b.timestamp_ms

\* What the filter has yielded and what the wrapped stream still holds.
Forwarded == filter.out \o filter.org.items

\* C17 as stated: once true has been sent on the signal, a poll of the
\* filter ends the stream and yields nothing.
C17_StepAfterTrue ==
    (Poll /\ filter.told) => (filter'.pc = "ended" /\ filter'.out = filter.out)
C17_StepWhileTrue ==
    (Poll /\ filter.signal.value) =>
        /\ filter'.pc = "ended"
        /\ filter'.out = filter.out
        /\ filter'.org = filter.org
C20_ReturnStep ==
    \A c \in Submitters :
        (AddMessageReturn(c) /\ workload.http) =>
            /\ response[c].kind = "Ok" => http_status'[c] = "200 OK"
            /\ response[c] = [kind |-> "Err", error |-> "Conflict"]
                  => http_status'[c] = "409 Conflict"
            /\ response[c] = [kind |-> "Err", error |-> "Internal"]
                  => http_status'[c] = "500 Internal Server Error"
C20_KnownStatus ==
    \A c \in Submitters :
        http_status[c] \in {"none", "200 OK", "409 Conflict", "500 Internal Server Error"}
C20_StatusFollowsResult == [][C20_ReturnStep]_vars /\ []C20_KnownStatus

\* One request has been answered 409 and another 500 while an event is
\* stored.
C20_Witness ==
    \E c, d \in Submitters :
        /\ http_status[c] = "409 Conflict"
        /\ http_status[d] = "500 Internal Server Error"
        /\ events_table # {}

\* What belongs to the stream s alone.
StreamState(s) ==
    << stream_pc[s], stream_events[s], stream_last_event_id[s], response[s],
       emitted[s], lags[s] >>

\* C19: dropping a stream changes nothing but the state of that stream:
\* the log, the id counter, the queue of pending requests, the ring, the
\* callers and every other stream stay as they are, and what the dropped
\* stream had yielded stays as it was. When the actor comes to the
\* ReadEvents of a dropped stream it takes it off the queue and changes
\* nothing else, and it can always handle the request at the head of the
\* queue. Every stream, dropped or not, has yielded stored events only.
C19_DropStep ==
    \A t \in Subscribers :
        DropStream(t) =>
            /\ UNCHANGED << events_table, history_last_event_id, receiver, current,
                            client_pc, emitted, lags, http_status, lifecycle >>
            /\ \A c \in Submitters : response'[c] = response[c]
            /\ \A s \in Subscribers \ {t} : StreamState(s)' = StreamState(s)
C19_DroppedRequestStep ==
    (HandleReadEvents /\ stream_pc[NextRequest(receiver).responder] = "dropped") =>
        /\ receiver' = Tail(receiver)
        /\ UNCHANGED << events_table, history_last_event_id, current, response,
                        client_pc, stream_pc, stream_events, stream_last_event_id,
                        emitted, lags, http_status, lifecycle >>
C19_YieldedAreStored ==
    \A s \in Subscribers : \A i \in 1 .. Len(emitted[s]) :
        emitted[s][i] \in StoredEvents
C19_QueueIsServed == receiver # << >> => ENABLED (HandleReadEvents \/ HandleAddMessage)
C19_DropIsLocal ==
    /\ [][C19_DropStep]_vars
    /\ [][C19_DroppedRequestStep]_vars
    /\ [](C19_YieldedAreStored /\ C19_QueueIsServed)

\* A stream was dropped after its first event, the request it had queued
\* has been handled, and the other stream has gone on to yield the second
\* event from its live receiver.
C19_Witness ==
    \E s, t \in Subscribers :
        /\ stream_pc[t] = "dropped"
        /\ Len(emitted[t]) = 1
        /\ receiver = << >>
        /\ stream_pc[s] = "current"
        /\ Len(emitted[s]) = 2

\* The events of a table, as events_since reads them.
EventsOf(table) == {EventOf(r) : r \in table}

\* C21: when the actor answers an add_message with Ok the event for the
\* message is in the log; the log never loses an event; and a ReadEvents(k)
\* whose history query succeeds is answered with a history batch that
\* contains every stored event whose id is above k. Requests are handled in the order they were queued: the
\* queue changes by taking its head or by appending at its end.
C21_OkStep ==
    \A now \in workload.clock, fault \in Faults :
        (HandleAddMessageWith(now, fault)
            /\ Waiting(NextRequest(receiver).responder)
            /\ response'[NextRequest(receiver).responder].kind = "Ok")
            => \E e \in EventsOf(events_table') : e.message = NextRequest(receiver).message
C21_LogGrows == events_table \subseteq events_table'
C21_ReadStep ==
    (HandleReadEventsWith("none")
        /\ stream_pc[NextRequest(receiver).responder] # "dropped") =>
        \A e \in StoredEvents :
            e.id > NextRequest(receiver).last_event_id =>
                /\ response'[NextRequest(receiver).responder].kind = "History"
                /\ \E i \in 1 .. Len(response'[NextRequest(receiver).responder].history) :
                      response'[NextRequest(receiver).responder].history[i] = e
C21_QueueStep ==
    \/ receiver' = receiver
    \/ receiver # << >> /\ receiver' = Tail(receiver)
    \/ \E i \in 1 .. Len(receiver') :
          /\ i = Len(receiver')
          /\ receiver = SubSeq(receiver', 1, i - 1)
    \/ Open
C21_ReadYourWrites ==
    /\ [][C21_OkStep]_vars
    /\ [][C21_LogGrows]_vars
    /\ [][C21_ReadStep]_vars
    /\ [][C21_QueueStep]_vars

\* A caller has been answered 200 for its message, and a stream that asked
\* for what follows event 1 afterwards holds a history batch with event 2.
C21_Witness ==
    \E c \in Submitters, s \in Subscribers :
        /\ http_status[c] = "200 OK"
        /\ response[s].kind = "History"
        /\ stream_last_event_id[s] = 1
        /\ response[s].history[1].id = 2

\* C22: the actor answers a ReadEvents(k) whose history query succeeds with
\* a history batch if and only if an event with an id above k is stored
\* when it handles the request,
\* and with a live receiver if and only if none is; a history batch is not
\* empty, holds every stored event with an id above k and is in strictly
\* increasing order of id.
C22_ReplyStep ==
    (HandleReadEventsWith("none")
        /\ stream_pc[NextRequest(receiver).responder] # "dropped") =>
        LET k     == NextRequest(receiver).last_event_id
            reply == response'[NextRequest(receiver).responder]
            above == {e \in StoredEvents : e.id > k}
        IN  /\ reply.kind = "History" <=> above # {}
            /\ reply.kind = "Current" <=> above = {}
            /\ reply.kind = "History" =>
                  /\ reply.history # << >>
                  /\ \A e \in above : \E i \in 1 .. Len(reply.history) : reply.history[i] = e
                  /\ \A i, j \in 1 .. Len(reply.history) :
                        i < j => reply.history[i].id < reply.history[j].id
C22_HistoryIffEventsAbove == [][C22_ReplyStep]_vars

\* C23: for every last_event_id k, events_since(k) returns exactly the
\* stored events with an id above k, in strictly increasing order of id,
\* and the empty list when k is at least the highest stored id.
C23_EventsSinceIsExact ==
    \A k \in LastEventIds :
        LET result == events_since(events_table, k)
        IN  /\ {result[i] : i \in 1 .. Len(result)} = {e \in StoredEvents : e.id > k}
            /\ \A i, j \in 1 .. Len(result) : i < j => result[i].id < result[j].id
            /\ k >= MaxStoredId => result = << >>

\* C24: when the history query of a ReadEvents fails, the stream is not
\* answered with a live receiver nor with a batch but with the failure, and
\* the log, the id counter and the ring stay as they are; the stream that
\* takes the failure yields an error item, keeps its cursor and what it had
\* yielded, and holds no live receiver; and the events a stream that met a
\* failure has yielded have consecutive ids.
C24_FailedQueryStep ==
    (HandleReadEventsWith("read") /\ stream_pc[NextRequest(receiver).responder] # "dropped") =>
        /\ response'[NextRequest(receiver).responder].kind \notin {"Current", "History"}
        /\ response'[NextRequest(receiver).responder] = ReadFailedReply
        /\ UNCHANGED << events_table, history_last_event_id, current,
                        stream_last_event_id, emitted >>
C24_ErrorItemStep ==
    \A s \in Subscribers :
        ResponseFailed(s) =>
            /\ stream_errors'[s] = stream_errors[s] + 1
            /\ stream_last_event_id'[s] = stream_last_event_id[s]
            /\ emitted'[s] = emitted[s]
            /\ stream_events'[s].kind # "Current"
C24_NothingSkipped ==
    \A s \in Subscribers :
        stream_errors[s] >= 1 =>
            \A i \in 1 .. Len(emitted[s]) - 1 :
                emitted[s][i + 1].id = emitted[s][i].id + 1
C25_ErrorEventStep ==
    \A s \in Subscribers :
        ResponseFailed(s) =>
            /\ DOMAIN sse'[s].last = {"event", "data"}
            /\ sse'[s].last.event = "error"
            /\ sse'[s].last.data = "Internal server error"
            /\ sse'[s].last_event_id = sse[s].last_event_id
C25_EventStep ==
    \A s \in Subscribers :
        (emitted'[s] # emitted[s] /\ runtime' = runtime /\ opens' = opens) =>
            /\ "id" \in DOMAIN sse'[s].last
            /\ "event" \notin DOMAIN sse'[s].last
            /\ LastEventId_from_header(sse'[s].last.id) =
                   emitted'[s][Len(emitted'[s])].id
            /\ sse'[s].last.data.id = emitted'[s][Len(emitted'[s])].message.id
C25_LastEventIdIsDelivered ==
    \A s \in Subscribers :
        LastEventId_from_header(sse[s].last_event_id) =
            IF emitted[s] = << >>
                THEN first_last_event_id[s]
                ELSE emitted[s][Len(emitted[s])].id
C25_ErrorEventHasNoId ==
    /\ [][C25_ErrorEventStep]_vars
    /\ [][C25_EventStep]_vars
    /\ []C25_LastEventIdIsDelivered

\* A stream has yielded event 1 and then an error item: the SSE event last
\* written is the error, and the client still holds the Last-Event-ID 1.
C25_Witness ==
    \E s \in Subscribers :
        /\ stream_errors[s] = 1
        /\ Len(emitted[s]) = 1
        /\ "event" \in DOMAIN sse[s].last
        /\ sse[s].last_event_id = << 1 >>

\* C27: an open of a store at user_version 0 either creates the events
\* table and sets user_version to 1, or fails and leaves neither; an open of
\* a store at user_version 1 succeeds and changes neither the version nor
\* the tables; every successful open leaves user_version 1; no open changes
\* the stored events; and in every state the events table exists exactly if
\* user_version is not 0.
C27_FreshStep ==
    (Open /\ user_version = 0) =>
        \/ /\ open_result' = "Ok"
           /\ user_version' = SupportedVersion
           /\ schema' = {"events"}
        \/ /\ open_result' # "Ok"
           /\ user_version' = 0
           /\ schema' = {}
           /\ runtime' = "closed"
C27_CurrentStep ==
    (Open /\ user_version = SupportedVersion) =>
        /\ open_result' = "Ok"
        /\ UNCHANGED << user_version, schema, events_table >>
C27_OpenStep ==
    Open =>
        /\ open_result' = "Ok" => user_version' = SupportedVersion
        /\ events_table' = events_table
C27_SchemaWithVersion ==
    /\ ("events" \in schema) <=> (user_version # 0)
    /\ runtime = "running" => user_version = SupportedVersion
C27_OpenFollowsVersion ==
    /\ [][C27_FreshStep]_vars
    /\ [][C27_CurrentStep]_vars
    /\ [][C27_OpenStep]_vars
    /\ []C27_SchemaWithVersion

\* The program was started on a path without a database, created the
\* schema and has recorded an event.
C27_Witness ==
    /\ workload.fresh
    /\ opens = 1
    /\ user_version = SupportedVersion
    /\ schema = {"events"}
    /\ events_table # {}

\* The first open of a path without a database failed in the migration.
C27_FailedWitness ==
    /\ workload.fresh
    /\ opens = 1
    /\ open_result = MigrateError
    /\ user_version = 0

\* C28: while a history is open, its counter last_event_id is the highest
\* stored id, 0 for an empty store; a successful open sets it to that
\* maximum; a record_message that stores an event advances it by one to the
\* id of that event, which is the number of events stored before plus one;
\* a record_message that stores nothing (duplicate, conflict, failure)
\* leaves it as it is.
C28_CounterIsMaxId ==
    runtime \in {"running", "stopping"} => history_last_event_id = MaxStoredId
C28_OpenStep ==
    (Open /\ open_result' = "Ok") =>
        history_last_event_id' =
            IF events_table' = {} THEN 0
            ELSE CHOOSE i \in {EventOf(r).id : r \in events_table'} :
                     \A r \in events_table' : EventOf(r).id <= i
C28_RecordStep ==
    HandleAddMessage =>
        IF events_table' # events_table
            THEN /\ history_last_event_id' = history_last_event_id + 1
                 /\ {EventOf(r).id : r \in events_table' \ events_table} =
                        {Cardinality(events_table) + 1}
                 /\ history_last_event_id' = Cardinality(events_table) + 1
            ELSE history_last_event_id' = history_last_event_id
C28_CounterFollowsStore ==
    /\ []C28_CounterIsMaxId
    /\ [][C28_OpenStep]_vars
    /\ [][C28_RecordStep]_vars

\* The store held one event when it was opened again, and the first event
\* recorded since then (the only one in the new ring) has the id 2.
C28_Witness ==
    /\ opens = 1
    /\ ~workload.fresh
    /\ runtime = "running"
    /\ current.pos = 1
    /\ Cardinality(events_table) = 2
    /\ history_last_event_id = 2

\* C29: what the filter has yielded is always a prefix of the items of the
\* wrapped stream; while true has never been sent on the signal, the filter
\* ends only when the wrapped stream has ended and all its items have been
\* yielded, and it can go on whenever the wrapped stream has an item or its
\* end ready; and a poll that finds the signal changed to false goes on
\* polling without yielding or taking an item.
C29_OutputIsPrefix ==
    /\ Len(filter.out) <= Len(filter.wrapped)
    /\ filter.out = SubSeq(filter.wrapped, 1, Len(filter.out))
C29_WhileFalse ==
    ~filter.told =>
        /\ filter.pc = "ended" =>
              (filter.out = filter.wrapped /\ filter.org.ends)
        /\ filter.org.items =
              SubSeq(filter.wrapped, Len(filter.out) + 1, Len(filter.wrapped))
        /\ (filter.pc # "ended" /\ OrgReady(filter.org)) => ENABLED (Poll \/ Drain)
C29_ChangeToFalseStep ==
    (Poll /\ ~filter.signal.value
          /\ watch_changed(filter.signal, filter.seen) = "Ok") =>
        /\ filter'.pc = "polling"
        /\ filter'.out = filter.out
        /\ filter'.org = filter.org
C29_TransparentWhileFalse ==
    /\ []C29_OutputIsPrefix
    /\ []C29_WhileFalse
    /\ [][C29_ChangeToFalseStep]_vars

\* False has been sent on the signal and the filter has seen the change;
\* it has since yielded both items of the wrapped stream and ended with it.
C29_Witness ==
    /\ ~filter.told
    /\ ~filter.signal.closed
    /\ filter.signal.version >= 1
    /\ filter.seen = filter.signal.version
    /\ filter.pc = "ended"
    /\ Len(filter.out) = MaxItems
    /\ filter.out = filter.wrapped

\* C30: when the actor handles the AddMessage of a caller that has dropped
\* its reply receiver, nothing is delivered and the reply is dropped, and
\* the log, the id counter and the ring become what they become for a
\* waiting caller: a new message is stored under the next id and sent on
\* the ring, a known message or a failed insert changes nothing; when it
\* handles the ReadEvents of a stream that has gone, the log and the counter
\* stay as they are; either way the request leaves the queue and the actor
\* can handle the request behind it.
C30_DroppedSubmitStep ==
    \A now \in workload.clock, fault \in Faults :
        (HandleAddMessageWith(now, fault)
            /\ client_pc[NextRequest(receiver).responder] = "dropped") =>
            LET msg   == NextRequest(receiver)
                known == \E r \in events_table : r.message_id = msg.message.id
                event == Event_new(history_last_event_id + 1, msg.message, now)
            IN  /\ response' = response
                /\ receiver' = Tail(receiver)
                /\ unsent'.kind \in {"Ok", "Err"}
                /\ (fault # "insert" /\ ~known) =>
                      /\ events_table' \ events_table = {RowOf(event)}
                      /\ history_last_event_id' = history_last_event_id + 1
                      /\ current' = broadcast_send(current, event,
                                        rx_cnt(response, stream_events))
                      /\ unsent' = [kind |-> "Ok", recorded |-> "New"]
                /\ (fault = "insert" \/ known) =>
                      UNCHANGED << events_table, history_last_event_id, current >>
C30_GoneReaderStep ==
    (HandleReadEvents /\ stream_pc[NextRequest(receiver).responder] = "dropped") =>
        /\ UNCHANGED << events_table, history_last_event_id >>
        /\ unsent'.kind \in {"History", "Current", "Failed"}
        /\ receiver' = Tail(receiver)
C30_QueueIsServed ==
    (receiver # << >> /\ runtime \in {"running", "stopping"}) =>
        \/ /\ NextRequest(receiver).type = "AddMessage"
           /\ ENABLED HandleAddMessage
        \/ /\ NextRequest(receiver).type = "ReadEvents"
           /\ ENABLED HandleReadEvents
C30_UndeliverableReplyIsIgnored ==
    /\ [][C30_DroppedSubmitStep]_vars
    /\ [][C30_GoneReaderStep]_vars
    /\ []C30_QueueIsServed

\* A caller gave up while its message was in the queue; the actor has
\* stored the message as a new event while a stream was subscribed, and the
\* reply it could not deliver was Ok.
C30_Witness ==
    \E c \in Submitters :
        /\ client_pc[c] = "dropped"
        /\ unsent = [kind |-> "Ok", recorded |-> "New"]
        /\ events_table # {}
        /\ current.pos >= 1

\* The events held by the broadcast ring.
RingEvents == {current.buffer[i] : i \in 1 .. Len(current.buffer)}

\* C31: when the actor records a new event while no live receiver exists,
\* it answers the waiting caller Ok and the ring stays as it is; with an
\* AddMessage at the head of the queue the actor can always take its step,
\* whether or not a receiver exists; and a ReadEvents whose query succeeds
\* is answered, for every stored event that the ring does not hold and
\* whose id is above the cursor, with a history batch that contains it.
C31_PublishStep ==
    \A now \in workload.clock, fault \in Faults :
        (HandleAddMessageWith(now, fault)
            /\ rx_cnt(response, stream_events) = 0
            /\ events_table' # events_table) =>
            /\ Waiting(NextRequest(receiver).responder) =>
                  response'[NextRequest(receiver).responder] =
                      [kind |-> "Ok", recorded |-> "New"]
            /\ current' = current
            /\ history_last_event_id' = history_last_event_id + 1
C31_LaterSubscriberStep ==
    (HandleReadEventsWith("none")
        /\ stream_pc[NextRequest(receiver).responder] # "dropped") =>
        LET k     == NextRequest(receiver).last_event_id
            reply == response'[NextRequest(receiver).responder]
        IN  \A e \in StoredEvents \ RingEvents :
                k < e.id =>
                    /\ reply.kind = "History"
                    /\ \E i \in 1 .. Len(reply.history) : reply.history[i] = e
C31_NeverBlocks ==
    (receiver # << >> /\ NextRequest(receiver).type = "AddMessage"
        /\ runtime \in {"running", "stopping"}) =>
        \A now \in workload.clock : ENABLED HandleAddMessageWith(now, "none")
C31_PublishNeverFailsSubmit ==
    /\ [][C31_PublishStep]_vars
    /\ [][C31_LaterSubscriberStep]_vars
    /\ []C31_NeverBlocks

\* Two events were recorded and answered Ok while nobody was subscribed
\* (the ring never took a value), and a stream that asked afterwards has
\* yielded both from history.
C31_Witness ==
    \E s \in Subscribers :
        /\ current.pos = 0
        /\ opens = 0
        /\ Cardinality(events_table) = 2
        /\ first_last_event_id[s] = before_all
        /\ Len(emitted[s]) = 2
        /\ \E c \in Submitters : http_status[c] = "200 OK"

\* C32: the request channel never holds more than ChannelCapacity
\* requests; while it is full no caller and no stream can send, and the
\* actor can take a request; while it is not full every idle caller and
\* every stream about to ask can send; a send appends the request at the
\* end of the queue and a step of the actor takes its head, so that no
\* request is lost or overtaken.
C32_Bounded == Len(receiver) <= ChannelCapacity
C32_FullSuspends ==
    Len(receiver) = ChannelCapacity =>
        /\ \A c \in Submitters : ~ENABLED AddMessageSend(c)
        /\ \A s \in Subscribers : ~ENABLED EventsSend(s)
        /\ ENABLED (HandleAddMessage \/ HandleReadEvents)
C32_RoomResumes ==
    Len(receiver) < ChannelCapacity =>
        /\ \A c \in Submitters :
              (client_pc[c] = "idle" /\ ~workload.journal) => ENABLED AddMessageSend(c)
        /\ \A s \in Subscribers : stream_pc[s] = "send" => ENABLED EventsSend(s)
C32_SendStep ==
    /\ \A c \in Submitters :
          AddMessageSend(c) =>
              /\ Len(receiver') = Len(receiver) + 1
              /\ SubSeq(receiver', 1, Len(receiver)) = receiver
              /\ receiver'[Len(receiver')].responder = c
    /\ \A s \in Subscribers :
          EventsSend(s) =>
              /\ Len(receiver') = Len(receiver) + 1
              /\ SubSeq(receiver', 1, Len(receiver)) = receiver
              /\ receiver'[Len(receiver')].responder = s
    /\ (HandleAddMessage \/ HandleReadEvents) => receiver' = Tail(receiver)
C32_ChannelIsBounded ==
    /\ [](C32_Bounded /\ C32_FullSuspends /\ C32_RoomResumes)
    /\ [][C32_SendStep]_vars

\* The channel is full, with the request of a stream at its head, and a
\* caller that wants to submit is suspended.
C32_Witness ==
    /\ Len(receiver) = ChannelCapacity
    /\ receiver[1].type = "ReadEvents"
    /\ \E c \in Submitters : client_pc[c] = "idle"

\* C33: once the actor has exited, the request channel is empty; a request
\* leaves the channel only by being handled by the actor, never by the
\* shutdown or the exit; an AddMessage handled after shutdown() dropped the
\* runtime's sender is recorded like any other (with the storage raising no
\* fault its message is in the log afterwards); and when shutdown() has
\* dropped its sender with requests still queued, the runtime gets to the
\* point where shutdown() has returned and the channel is empty.
C33_ExitedIsDrained ==
    runtime \in {"exited", "closed"} => receiver = << >>
C33_LeaveStep ==
    /\ (ActorExit \/ Shutdown \/ ShutdownReturn) => receiver' = receiver
    /\ Len(receiver') < Len(receiver) =>
          /\ HandleAddMessage \/ HandleReadEvents
          /\ receiver' = Tail(receiver)
C33_LateRecordStep ==
    \A now \in workload.clock :
        (HandleAddMessageWith(now, "none") /\ runtime = "stopping") =>
            \E r \in events_table' :
                r.message_id = NextRequest(receiver).message.id
C33_DrainOnShutdown ==
    /\ []C33_ExitedIsDrained
    /\ [][C33_LeaveStep]_vars
    /\ [][C33_LateRecordStep]_vars
    /\ (runtime = "stopping" /\ receiver # << >>)
           ~> (runtime = "closed" /\ receiver = << >>)

\* shutdown() has dropped the runtime's sender while the message of a
\* caller that has gone is still in the channel and nothing is stored.
C33_Witness ==
    /\ runtime = "stopping"
    /\ receiver # << >>
    /\ NextRequest(receiver).type = "AddMessage"
    /\ events_table = {}

\* C34: every event the broadcast ring holds is an event of the log, with
\* the same id, message and timestamp; the step that puts an event on the
\* ring is the step that stores it; and an event a stream takes from its
\* live receiver is an event of the log.
C34_RingIsStored == RingEvents \subseteq StoredEvents
C34_PublishStep ==
    current'.pos > current.pos =>
        /\ current'.pos = current.pos + 1
        /\ current'.buffer[Len(current'.buffer)] \in
              {EventOf(r) : r \in events_table' \ events_table}
C34_LiveYieldStep ==
    \A s \in Subscribers :
        YieldCurrent(s) =>
            /\ emitted'[s][Len(emitted'[s])] \in StoredEvents
            /\ emitted'[s][Len(emitted'[s])] = ValueAt(current, stream_events[s].next)
C34_PersistBeforePublish ==
    /\ []C34_RingIsStored
    /\ [][C34_PublishStep]_vars
    /\ [][C34_LiveYieldStep]_vars

\* A stream has taken from its live receiver an event whose timestamp has
\* the highest bit set, and the ring still holds it.
C34_Witness ==
    \E s \in Subscribers :
        /\ stream_events[s].kind = "Current"
        /\ stream_events[s].next > stream_events[s].start
        /\ emitted[s] # << >>
        /\ emitted[s][Len(emitted[s])] \in RingEvents
        /\ emitted[s][Len(emitted[s])].timestamp_ms >= 2 ^ (IntBits - 1)

\* A stream exists: it has been opened and not been dropped.
Alive(s) == stream_pc[s] \notin {"unopened", "dropped"}
\* A stream holds a live receiver, or one is on its way to it.
HoldsReceiver(s) == stream_events[s].kind = "Current" \/ response[s].kind = "Current"

\* C35: while a stream exists the actor has not exited, so the broadcast
\* sender it owns exists; in particular no live receiver exists once the
\* actor has exited, and the actor cannot exit while a stream exists, also
\* after shutdown() has dropped the runtime's sender.
C35_SenderOutlivesStreams ==
    \A s \in Subscribers :
        /\ Alive(s) => runtime \in {"running", "stopping"}
        /\ Alive(s) => ~ENABLED ActorExit
        /\ runtime \in {"exited", "closed"} => ~HoldsReceiver(s)
C35_ExitStep ==
    ActorExit => \A s \in Subscribers : ~Alive(s) /\ ~HoldsReceiver(s)
C35_ClosedIsUnreachable ==
    /\ []C35_SenderOutlivesStreams
    /\ [][C35_ExitStep]_vars

\* shutdown() has dropped the runtime's sender and the caller has gone,
\* while a stream that has yielded an event waits on its live receiver.
C35_Witness ==
    \E s \in Subscribers :
        /\ runtime = "stopping"
        /\ \A c \in Submitters : client_pc[c] \in {"absent", "dropped"}
        /\ stream_pc[s] = "current"
        /\ stream_events[s].kind = "Current"
        /\ Len(emitted[s]) >= 1
        /\ receiver = << >>

\* C36: shutdown() has not returned, and the actor has not exited, while a
\* caller or a stream exists; once shutdown() has dropped the runtime's
\* sender and a caller or a stream still exists, neither the exit of the
\* actor nor the return of shutdown() can happen, and the actor goes on
\* serving the requests in the channel; the step in which shutdown()
\* returns finds every caller and every stream dropped.
C36_Handles ==
    {c \in Submitters : client_pc[c] \in {"idle", "awaiting"}}
        \cup {s \in Subscribers : Alive(s)}
C36_WaitsForHandles ==
    C36_Handles # {} =>
        /\ runtime \notin {"exited", "closed"}
        /\ runtime = "stopping" =>
              /\ ~ENABLED ActorExit
              /\ ~ENABLED ShutdownReturn
              /\ receiver # << >> => ENABLED (HandleAddMessage \/ HandleReadEvents)
C36_ReturnStep ==
    ShutdownReturn => (C36_Handles = {} /\ C36_Handles' = {})
C36_ShutdownWaitsForStreams ==
    /\ []C36_WaitsForHandles
    /\ [][C36_ReturnStep]_vars

\* shutdown() has dropped the runtime's sender; the caller has gone, and a
\* stream that was not dropped has a request in the channel for the actor.
C36_Witness ==
    \E s \in Subscribers :
        /\ runtime = "stopping"
        /\ C36_Handles = {s}
        /\ stream_pc[s] = "await"
        /\ receiver # << >>
        /\ Len(emitted[s]) >= 1

\* The requests of a stream that are in the channel or answered and not
\* yet taken.
Outstanding(s) ==
    Cardinality({i \in 1 .. Len(receiver) : receiver[i].responder = s})
        + (IF response[s] # NoResponse THEN 1 ELSE 0)

\* C37: a stream that exists has one request outstanding while it awaits a
\* reply and none otherwise; it gets to the point of sending a request only
\* when it is opened, when it has yielded the last event of a history
\* batch, when its live receiver reported that it lagged, or after the
\* error item of a failed query; and a stream on its live receiver cannot
\* send a request and leaves the receiver only by lagging or by being
\* dropped, however many events it takes from it.
C37_OneOutstanding ==
    \A s \in Subscribers :
        Alive(s) => Outstanding(s) = (IF stream_pc[s] = "await" THEN 1 ELSE 0)
C37_LiveDoesNotAsk ==
    \A s \in Subscribers : stream_pc[s] = "current" => ~ENABLED EventsSend(s)
C37_AskStep ==
    \A s \in Subscribers :
        /\ (stream_pc'[s] = "send" /\ stream_pc[s] # "send") =>
              \/ Open
              \/ (ResponseHistory(s) \/ YieldHistory(s))
                    /\ stream_events'[s] = NoEvents
                    /\ emitted'[s] # emitted[s]
              \/ LaggedCurrent(s)
              \/ ResponseFailed(s)
        /\ (stream_pc[s] = "current" /\ stream_pc'[s] # "current") =>
              (LaggedCurrent(s) \/ DropStream(s))
        /\ YieldCurrent(s) =>
              (stream_pc'[s] = "current" /\ receiver' = receiver)
\* C37: no polling: one request outstanding at most, a new one only after
\* a batch was yielded to its end or after a lag, none from a stream on
\* its live receiver.
C37_NoPolling ==
    /\ [](C37_OneOutstanding /\ C37_LiveDoesNotAsk)
    /\ [][C37_AskStep]_vars

\* A stream that never lagged has taken two events from its live receiver,
\* and the channel holds no request.
C37_Witness ==
    \E s \in Subscribers :
        /\ stream_pc[s] = "current"
        /\ lags[s] = 0
        /\ stream_events[s].next - stream_events[s].start >= 2
        /\ receiver = << >>

\* C38: every history batch a stream is answered with is non-empty and
\* ends with an id greater than the cursor the stream asked with; every
\* step that moves the cursor of a stream increases it; and a stream that
\* is not dropped and not ended by a failure comes to be on its live
\* receiver with its cursor at the highest stored id.
C38_BatchEndsAboveCursor ==
    \A s \in Subscribers :
        (stream_pc[s] = "await" /\ response[s].kind = "History") =>
            /\ response[s].history # << >>
            /\ response[s].history[Len(response[s].history)].id
                  > stream_last_event_id[s]
C38_CursorStep ==
    \A s \in Subscribers :
        (Alive(s) /\ stream_last_event_id'[s] # stream_last_event_id[s]) =>
            stream_last_event_id'[s] > stream_last_event_id[s]
C38_ReachesLive ==
    \A s \in Subscribers :
        Alive(s) ~>
            \/ stream_pc[s] = "current"
                  /\ stream_last_event_id[s] = MaxStoredId
            \/ stream_pc[s] \in {"dropped", "ended"}
\* C38: catch-up makes progress (non-empty batches that end above the
\* cursor, a cursor that only grows) and the stream reaches its live
\* receiver with the cursor at the highest stored id.
C38_CatchupReachesLive ==
    /\ []C38_BatchEndsAboveCursor
    /\ [][C38_CursorStep]_vars
    /\ C38_ReachesLive

====
